---- MODULE Spec2Model ----
(***************************************************************************)
(* Qeasy API server (server.mjs): the Keepa bulk fetch (getAmazonInfos),   *)
(* the Qoo10 seller-auth-key cache (getQoo10SellerAuthKey) and the Qoo10   *)
(* existence probe (getExistingQoo10Asins), as state machines.             *)
(*                                                                         *)
(* Strings are tuples of one-character strings, so that toUpperCase, trim, *)
(* startsWith, slice and the ASIN regular expression are computed and not  *)
(* assumed.  An optional number (a JSON field that may be absent) is the   *)
(* empty set or a singleton.                                               *)
(***************************************************************************)
EXTENDS Integers, Sequences, FiniteSets, TLC

(***************************************************************************)
(* Bounds of the model.                                                    *)
(***************************************************************************)
\* largest number of identifiers handed to getAmazonInfos
MaxN == 250
\* clock ticks the model lets pass
MaxTicks == 5
\* authentication exchanges the model lets start
MaxAuth == 3
\* listings on one page of GetAllGoodsInfo
MaxItems == 2

(***************************************************************************)
(* Strings.                                                                *)
(***************************************************************************)
Undefined == <<"#undefined">>

Digits == <<"0", "1", "2", "3", "4", "5", "6", "7", "8", "9">>

UpperLetters ==
  {"A", "B", "C", "D", "E", "F", "G", "H", "I", "J", "K", "L", "M",
   "N", "O", "P", "Q", "R", "S", "T", "U", "V", "W", "X", "Y", "Z"}

DigitSet == {Digits[d] : d \in 1..10}

\* String.prototype.toUpperCase, one character
UpperChar(c) ==
  CASE c = "a" -> "A" [] c = "b" -> "B" [] c = "m" -> "M" [] c = "z" -> "Z"
    [] c = "x" -> "X" [] c = "o" -> "O"
    [] OTHER -> c

toUpperCase(s) == [k \in 1..Len(s) |-> UpperChar(s[k])]

RECURSIVE TrimLeft(_)
TrimLeft(s) == IF s # <<>> /\ Head(s) = " " THEN TrimLeft(Tail(s)) ELSE s

RECURSIVE TrimRight(_)
TrimRight(s) ==
  IF s # <<>> /\ s[Len(s)] = " " THEN TrimRight(SubSeq(s, 1, Len(s) - 1)) ELSE s

\* String.prototype.trim
trim(s) == TrimRight(TrimLeft(s))

\* /^[A-Z0-9]{10}$/.test(a)
IsAsin(a) ==
  /\ Len(a) = 10
  /\ \A k \in 1..10 : a[k] \in UpperLetters \cup DigitSet

startsWith(s, p) == Len(s) >= Len(p) /\ SubSeq(s, 1, Len(p)) = p

\* s.slice(n)
slice(s, n) == SubSeq(s, n + 1, Len(s))

\* the slice with its end taken inclusive
ArraySlice_InclusiveEnd(arr, from, to) ==
  SubSeq(arr, from + 1, IF to + 1 < Len(arr) THEN to + 1 ELSE Len(arr))

\* arr.slice(from, to) of an array, 0-based, end exclusive and clamped
ArraySlice(arr, from, to) ==
  SubSeq(arr, from + 1, IF to < Len(arr) THEN to ELSE Len(arr))

\* Array.from(new Set(arr)): first occurrences, in order
Dedupe(arr) ==
  LET firsts == SelectSeq([k \in 1..Len(arr) |-> k],
                          LAMBDA k : \A j \in 1..(k - 1) : arr[j] # arr[k])
  IN [m \in 1..Len(firsts) |-> arr[firsts[m]]]

\* arr.filter(a => /^[A-Z0-9]{10}$/.test(a))
FilterAsins(arr) == SelectSeq(arr, IsAsin)

\* asins.map(a => String(a || "").trim().toUpperCase()).filter(regex), then Set
NormalizeAsins(asins) ==
  Dedupe(FilterAsins([k \in 1..Len(asins) |-> toUpperCase(trim(asins[k]))]))

Range(s) == {s[k] : k \in 1..Len(s)}

\* the k-th identifier of the model: "B" followed by k in nine digits
Asin(k) ==
  <<"B", "0", "0", "0", "0", "0", "0",
    Digits[((k \div 100) % 10) + 1],
    Digits[((k \div 10) % 10) + 1],
    Digits[(k % 10) + 1]>>

\* the same identifier as a client may send it: lower case, padded
LowerAsin(k) == <<" ", "b">> \o Tail(Asin(k)) \o <<" ">>

(***************************************************************************)
(* Keepa: getAmazonInfos.                                                  *)
(***************************************************************************)
VARIABLES
  KEEPA_API_KEY,   \* TRUE when the environment sets a Keepa key
  QOO10_API_KEY,   \* TRUE when the environment sets the QAPI key
  QOO10_USER_ID,   \* TRUE when the environment sets the QSM login id
  QOO10_USER_PW,   \* TRUE when the environment sets the QSM password
  items,           \* data/items.json
  now,             \* Date.now(), in ms
  fpc,             \* getAmazonInfos: "idle", "loop", "done"
  uniqueAsins,     \* the normalized identifiers
  i,               \* loop index
  results,         \* the facts pushed so far
  keepaLog,        \* one entry per request to api.keepa.com: chunk, response
  qoo10AuthCache,  \* the cached seller auth key: key, expiresAt
  calls,           \* the calls of getQoo10SellerAuthKey, one per caller
  authCount,       \* the requests sent to CreateCertificationKey
  ppc,             \* getExistingQoo10Asins: "idle", "auth", "loop", "done", "threw"
  target,          \* the normalized identifiers asked for
  found,           \* the Set of identifiers found, in insertion order
  page,            \* the next page to request
  sellerKey,       \* the key the page requests carry
  pageLog,         \* one entry per request to GetAllGoodsInfo
  scanned,         \* the seller codes of the listings read so far
  existing,        \* the array returned
  cpc,             \* POST /qoo10/create-listings: "idle", "item", "await", "done"
  itemsPayload,    \* the listing requests of the body
  clItems,         \* the route's `items`: items.json as loaded, then upserted
  asinIndex,       \* the Map from identifier to position, built after loading
  clPos,           \* the position of `payload` in itemsPayload
  clResults,       \* the route's `results`
  createCall,      \* the call of qoo10CreateItem: where it is, what it gave
  createLog,       \* one entry per request to ItemsBasic.SetNewGoods
  rpc,             \* POST /items/refresh: "idle", "fetch", "done"
  rfItems,         \* the route's `items`: items.json as loaded
  updatedCount     \* the count the route answers with

envVars == <<KEEPA_API_KEY, QOO10_API_KEY, QOO10_USER_ID, QOO10_USER_PW, items>>

fetchVars == <<fpc, uniqueAsins, i, results, keepaLog>>

sessionVars == <<qoo10AuthCache, calls, authCount>>

probeVars == <<ppc, target, found, page, sellerKey, pageLog, scanned, existing>>

publishVars ==
  <<cpc, itemsPayload, clItems, asinIndex, clPos, clResults, createCall, createLog>>

refreshVars == <<rpc, rfItems, updatedCount>>

routeVars == <<publishVars, refreshVars>>

vars == <<envVars, now, fetchVars, sessionVars, probeVars, routeVars>>

chunkSize == 100

\* Math.round(p / 100) of a positive integer
toYen(p) ==
  IF p = {} THEN 0
  ELSE LET v == CHOOSE x \in p : TRUE
       IN IF v > 0 THEN (v + 50) \div 100 ELSE 0

\* the chain taken from its end: the last value that is not 0
FirstTruthy_Last(ns) ==
  IF \E k \in 1..Len(ns) : ns[k] # 0
  THEN ns[CHOOSE k \in 1..Len(ns) : ns[k] # 0 /\ \A j \in (k + 1)..Len(ns) : ns[j] = 0]
  ELSE 0

\* a || b || c || 0 on numbers
FirstTruthy(ns) ==
  IF \E k \in 1..Len(ns) : ns[k] # 0
  THEN ns[CHOOSE k \in 1..Len(ns) : ns[k] # 0 /\ \A j \in 1..(k - 1) : ns[j] = 0]
  ELSE 0

\* the dummy pushed for an identifier whose chunk could not be fetched
Placeholder(asin) ==
  [asin |-> asin, price |-> 0, sellerCount |-> 0, title |-> asin,
   image |-> Undefined, isPrime |-> TRUE, shipDays |-> 3]

ImageHost == <<"h", "t", "t", "p", "s", ":", "/", "I", "/">>

\* String(p.imagesCSV).split(",")[0]
RECURSIVE FirstField(_)
FirstField(s) ==
  IF s = <<>> \/ Head(s) = "," THEN <<>> ELSE <<Head(s)>> \o FirstField(Tail(s))

\* the fact pushed for one product of data.products (its asin is not empty)
ProductFact(p) ==
  LET asin == toUpperCase(p.asin)
      stats == p.stats
      price == FirstTruthy(<<toYen(stats.buyBoxPrice), toYen(stats.current),
                             toYen(p.newPrice)>>)
      offers == IF stats.offerCountFBA # {} THEN stats.offerCountFBA
                ELSE stats.offerCountNew
      sellerCount == IF offers = {} THEN 0 ELSE CHOOSE x \in offers : TRUE
      first == FirstField(p.imagesCSV)
      image == IF p.imagesCSV # <<>> /\ first # <<>> THEN ImageHost \o first
               ELSE Undefined
      isPrime == \/ p.hasFBA
                 \/ p.fbaOffers
                 \/ (stats.offerCountFBA # {}
                     /\ (CHOOSE x \in stats.offerCountFBA : TRUE) > 0)
  IN [asin |-> asin, price |-> price, sellerCount |-> sellerCount,
      title |-> IF p.title # <<>> THEN p.title ELSE asin,
      image |-> image, isPrime |-> isPrime,
      shipDays |-> IF isPrime THEN 1 ELSE 3]

\* the loop body with nothing pushed for a chunk whose fetch threw
BatchFacts_ThrowDropsChunk(chunk, resp) ==
  IF resp.kind = "http"
  THEN [k \in 1..Len(chunk) |-> Placeholder(chunk[k])]
  ELSE IF resp.kind = "throw" \/ ~resp.isArray THEN <<>>
  ELSE LET named == SelectSeq(resp.products, LAMBDA p : toUpperCase(p.asin) # <<>>)
       IN [k \in 1..Len(named) |-> ProductFact(named[k])]

\* what one pass of the loop body pushes for `chunk`, given the response
BatchFacts(chunk, resp) ==
  IF resp.kind \in {"http", "throw"}
  THEN [k \in 1..Len(chunk) |-> Placeholder(chunk[k])]
  ELSE IF ~resp.isArray THEN <<>>
  ELSE LET named == SelectSeq(resp.products, LAMBDA p : toUpperCase(p.asin) # <<>>)
       IN [k \in 1..Len(named) |-> ProductFact(named[k])]

\* Keepa unset: a fact per identifier from items.json, or a dummy
LocalFact(asin) ==
  IF \E k \in 1..Len(items) : toUpperCase(items[k].asin) = asin
  THEN LET it == items[CHOOSE k \in 1..Len(items) :
                          /\ toUpperCase(items[k].asin) = asin
                          /\ \A j \in 1..(k - 1) : toUpperCase(items[j].asin) # asin]
       IN [asin |-> asin, price |-> it.amazonPrice, sellerCount |-> 5,
           title |-> IF it.name # <<>> THEN it.name ELSE asin,
           image |-> it.mainImage, isPrime |-> TRUE, shipDays |-> 1]
  ELSE Placeholder(asin)

(***************************************************************************)
(* The responses of api.keepa.com the model draws from.                    *)
(***************************************************************************)
KeepaTemplates ==
  { [stats |-> [buyBoxPrice |-> {5000}, current |-> {3000},
                offerCountFBA |-> {2}, offerCountNew |-> {7}],
     newPrice |-> {}, title |-> <<"T">>, imagesCSV |-> <<"i", ",", "j">>,
     hasFBA |-> FALSE, fbaOffers |-> FALSE],
    [stats |-> [buyBoxPrice |-> {-1}, current |-> {},
                offerCountFBA |-> {}, offerCountNew |-> {}],
     newPrice |-> {2949}, title |-> <<>>, imagesCSV |-> <<>>,
     hasFBA |-> FALSE, fbaOffers |-> FALSE] }

\* the prices a product is drawn with: none, not positive, below and at half a
\* unit, and two that differ after conversion
PriceValues == {{}, {-1}, {0}, {49}, {50}, {3000}, {5000}}

\* every combination of the three prices of a product
PriceTemplates ==
  { [stats |-> [buyBoxPrice |-> b, current |-> c,
                offerCountFBA |-> {}, offerCountNew |-> {}],
     newPrice |-> n, title |-> <<"T">>, imagesCSV |-> <<>>,
     hasFBA |-> FALSE, fbaOffers |-> FALSE] :
      b \in PriceValues, c \in PriceValues, n \in PriceValues }

Product(asin, t) ==
  [asin |-> asin, stats |-> t.stats, newPrice |-> t.newPrice, title |-> t.title,
   imagesCSV |-> t.imagesCSV, hasFBA |-> t.hasFBA, fbaOffers |-> t.fbaOffers]

\* the request sizes for which every shape of product list is drawn: the ones
\* around a multiple of chunkSize, and the largest
RichSizes == {n \in 0..MaxN : n % chunkSize \in {0, 1, 2, chunkSize - 1}} \cup {MaxN}

KeepaProductLists(chunk) ==
  LET full(t) == [k \in 1..Len(chunk) |-> Product(chunk[k], t)]
      t1 == CHOOSE t \in KeepaTemplates : t.newPrice = {}
  IN IF Len(uniqueAsins) \notin RichSizes THEN {full(t1)}
     ELSE {full(t) : t \in KeepaTemplates}
       \cup { Tail(full(t1)),                            \* one product missing
              Append(full(t1), Product(chunk[1], t1)),   \* one product twice
              <<>>,                                      \* no product
              <<Product(<<>>, t1)>>,                     \* a product without asin
              <<Product(Asin(0), t1)>> }                 \* a product not asked for
       \cup (IF Len(uniqueAsins) = 1
             THEN {full(t) : t \in PriceTemplates} ELSE {})

KeepaResponses(chunk) ==
  {[kind |-> "http", isArray |-> FALSE, products |-> <<>>],
   [kind |-> "throw", isArray |-> FALSE, products |-> <<>>]}
    \cup (IF Len(uniqueAsins) \in RichSizes
          THEN {[kind |-> "ok", isArray |-> FALSE, products |-> <<>>]} ELSE {})
    \cup {[kind |-> "ok", isArray |-> TRUE, products |-> ps] :
            ps \in KeepaProductLists(chunk)}

\* the catalogs of items.json the model starts from
Item(asin, name, price, code) ==
  [asin |-> asin, name |-> name, amazonPrice |-> price, mainImage |-> Undefined,
   inStock |-> TRUE, qoo10Id |-> code, updatedAt |-> 0]

InitialCatalogs ==
  { <<>>,
    <<Item(Asin(1), <<"N">>, 1200, <<>>)>>,
    <<Item(Asin(1), <<"N">>, 1200, <<"Q", "1">>), Item(Asin(2), <<>>, 0, <<>>)>> }

(***************************************************************************)
(* getAmazonInfos(asins): the call, one loop pass per action, the return.  *)
(***************************************************************************)
\* the requests of the model: n identifiers, canonical or as a client types them
FetchInputs ==
  {[k \in 1..n |-> Asin(k)] : n \in 0..MaxN}
    \cup {<<LowerAsin(1), Asin(2), Asin(1), <<"x">>, <<>>>>}

getAmazonInfosCall(asins) ==
  /\ fpc = "idle"
  /\ uniqueAsins' = NormalizeAsins(asins)
  /\ i' = 0
  /\ IF uniqueAsins' = <<>>
     THEN results' = <<>> /\ fpc' = "done"
     ELSE IF ~KEEPA_API_KEY
     THEN /\ results' = [k \in 1..Len(uniqueAsins') |-> LocalFact(uniqueAsins'[k])]
          /\ fpc' = "done"
     ELSE results' = <<>> /\ fpc' = "loop"
  /\ UNCHANGED keepaLog

\* a caller of its own calls: nothing else moves
FetchFacts(asins) ==
  /\ getAmazonInfosCall(asins)
  /\ UNCHANGED <<routeVars, envVars, now, sessionVars, probeVars>>

\* the loop pass with a failed request asked again
getAmazonInfosBatch_RetriesFailure ==
  /\ fpc = "loop"
  /\ i < Len(uniqueAsins)
  /\ LET chunk == ArraySlice(uniqueAsins, i, i + chunkSize)
     IN \E resp \in KeepaResponses(chunk) :
          /\ keepaLog' = Append(keepaLog, [chunk |-> chunk, resp |-> resp])
          /\ IF resp.kind \in {"http", "throw"}
             THEN UNCHANGED <<results, i>>
             ELSE /\ results' = results \o BatchFacts(chunk, resp)
                  /\ i' = i + chunkSize
  /\ UNCHANGED <<routeVars, envVars, now, fpc, uniqueAsins, sessionVars, probeVars>>

getAmazonInfosBatch ==
  /\ fpc = "loop"
  /\ i < Len(uniqueAsins)
  /\ LET chunk == ArraySlice(uniqueAsins, i, i + chunkSize)
     IN \E resp \in KeepaResponses(chunk) :
          /\ keepaLog' = Append(keepaLog, [chunk |-> chunk, resp |-> resp])
          /\ results' = results \o BatchFacts(chunk, resp)
  /\ i' = i + chunkSize
  /\ UNCHANGED <<routeVars, envVars, now, fpc, uniqueAsins, sessionVars, probeVars>>

getAmazonInfosReturn ==
  /\ fpc = "loop"
  /\ i >= Len(uniqueAsins)
  /\ fpc' = "done"
  /\ UNCHANGED <<routeVars, envVars, now, uniqueAsins, i, results, keepaLog, sessionVars,
                 probeVars>>

(***************************************************************************)
(* Qoo10: getQoo10SellerAuthKey.  A call runs to its first await (the       *)
(* fetch of CreateCertificationKey) in one step and from the response to   *)
(* its end in another; calls of several callers interleave at the await.   *)
(***************************************************************************)
\* the clock advances by a third of the cache's lifetime
TickMs == 15 * 60 * 1000

StartMs == TickMs

\* 45 * 60 * 1000: the key is valid for about an hour, cached for less
CacheTtlMs == 45 * 60 * 1000

Tokens == {"SAK1", "SAK2"}

\* the callers that call getQoo10SellerAuthKey directly
Callers == {"c1", "c2"}

AllCallers == Callers \cup {"probe", "publish"}

NoResp == [kind |-> "none", ok |-> FALSE, ResultCode |-> 0, ResultObject |-> ""]

EmptyCache == [key |-> "", expiresAt |-> 0]

\* a call: where it is, the `now` it read, the cache it saw, what it returned or
\* threw, the requests it sent and the response it got
IdleCall ==
  [pc |-> "idle", now |-> 0, saw |-> EmptyCache, ret |-> "", err |-> "",
   exchanges |-> 0, resp |-> NoResp]

\* the responses of CreateCertificationKey: the fetch or the JSON parse throws,
\* or a status with a body
AuthResponses ==
  {[kind |-> "throw", ok |-> FALSE, ResultCode |-> 0, ResultObject |-> ""]}
    \cup {[kind |-> "http", ok |-> ok, ResultCode |-> rc, ResultObject |-> ro] :
            ok \in BOOLEAN, rc \in {0, -10001}, ro \in {""} \cup Tokens}

\* !QOO10_API_KEY || !QOO10_USER_ID || !QOO10_USER_PW
CredentialsMissing_OnlyApiKey == ~QOO10_API_KEY

CredentialsMissing == ~QOO10_API_KEY \/ ~QOO10_USER_ID \/ ~QOO10_USER_PW

\* the cache test with the expiry not looked at
CacheHit_NoExpiry(t) == qoo10AuthCache.key # ""

\* the cache test with the key still served at its expiry time
CacheHit_AtExpiry(t) == qoo10AuthCache.key # "" /\ t <= qoo10AuthCache.expiresAt

\* qoo10AuthCache.key && now < qoo10AuthCache.expiresAt
CacheHit(t) == qoo10AuthCache.key # "" /\ t < qoo10AuthCache.expiresAt

\* the checks on the response with the result code not looked at
AuthOutcome_IgnoresResultCode(resp) ==
  IF resp.kind = "throw" THEN "transport"
  ELSE IF ~resp.ok THEN "http"
  ELSE IF resp.ResultObject = "" THEN "auth"
  ELSE "ok"

\* what the checks on the response make of it
AuthOutcome(resp) ==
  IF resp.kind = "throw" THEN "transport"
  ELSE IF ~resp.ok THEN "http"
  ELSE IF resp.ResultCode # 0 \/ resp.ResultObject = "" THEN "auth"
  ELSE "ok"

\* the call up to `return qoo10AuthCache.key`, the throw for missing
\* credentials, or `await fetch(url, ...)`
getQoo10SellerAuthKeyCall(c) ==
  /\ calls[c].pc = "idle"
  /\ IF CacheHit(now)
     THEN /\ calls' = [calls EXCEPT ![c] =
                         [IdleCall EXCEPT !.pc = "returned", !.now = now,
                                          !.saw = qoo10AuthCache,
                                          !.ret = qoo10AuthCache.key]]
          /\ UNCHANGED authCount
     ELSE IF CredentialsMissing
     THEN /\ calls' = [calls EXCEPT ![c] =
                         [IdleCall EXCEPT !.pc = "threw", !.now = now,
                                          !.saw = qoo10AuthCache,
                                          !.err = "credentials"]]
          /\ UNCHANGED authCount
     ELSE /\ authCount < MaxAuth
          /\ calls' = [calls EXCEPT ![c] =
                         [IdleCall EXCEPT !.pc = "auth", !.now = now,
                                          !.saw = qoo10AuthCache,
                                          !.exchanges = 1]]
          /\ authCount' = authCount + 1
  /\ UNCHANGED qoo10AuthCache

\* the response handled with a key cached in the meantime taken over: the
\* call returns that key and writes nothing
getQoo10SellerAuthKeyResponse_TakesCached(c) ==
  /\ calls[c].pc = "auth"
  /\ \E resp \in AuthResponses :
       IF AuthOutcome(resp) = "ok"
       THEN IF qoo10AuthCache.key # ""
            THEN /\ UNCHANGED qoo10AuthCache
                 /\ calls' = [calls EXCEPT ![c].pc = "returned",
                                           ![c].ret = qoo10AuthCache.key,
                                           ![c].resp = resp]
            ELSE /\ qoo10AuthCache' = [key |-> resp.ResultObject,
                                       expiresAt |-> calls[c].now + CacheTtlMs]
                 /\ calls' = [calls EXCEPT ![c].pc = "returned",
                                           ![c].ret = resp.ResultObject,
                                           ![c].resp = resp]
       ELSE /\ UNCHANGED qoo10AuthCache
            /\ calls' = [calls EXCEPT ![c].pc = "threw",
                                      ![c].err = AuthOutcome(resp),
                                      ![c].resp = resp]
  /\ UNCHANGED authCount

\* from the response of CreateCertificationKey to the throw or the return
getQoo10SellerAuthKeyResponse(c) ==
  /\ calls[c].pc = "auth"
  /\ \E resp \in AuthResponses :
       IF AuthOutcome(resp) = "ok"
       THEN /\ qoo10AuthCache' = [key |-> resp.ResultObject,
                                  expiresAt |-> calls[c].now + CacheTtlMs]
            /\ calls' = [calls EXCEPT ![c].pc = "returned",
                                      ![c].ret = resp.ResultObject,
                                      ![c].resp = resp]
       ELSE /\ UNCHANGED qoo10AuthCache
            /\ calls' = [calls EXCEPT ![c].pc = "threw",
                                      ![c].err = AuthOutcome(resp),
                                      ![c].resp = resp]
  /\ UNCHANGED authCount

\* a direct caller calls: the environment is untouched
GetSession(c) ==
  /\ getQoo10SellerAuthKeyCall(c)
  /\ UNCHANGED <<routeVars, envVars, now, fetchVars, probeVars>>

GetSessionResponse(c) ==
  /\ getQoo10SellerAuthKeyResponse(c)
  /\ UNCHANGED <<routeVars, envVars, now, fetchVars, probeVars>>

\* the caller takes the key or the error; it may call again
GetSessionDone(c) ==
  /\ calls[c].pc \in {"returned", "threw"}
  /\ calls' = [calls EXCEPT ![c] = IdleCall]
  /\ UNCHANGED <<routeVars, envVars, now, fetchVars, qoo10AuthCache, authCount, probeVars>>

\* time passes
Tick ==
  /\ now < StartMs + MaxTicks * TickMs
  /\ now' = now + TickMs
  /\ UNCHANGED <<routeVars, envVars, fetchVars, sessionVars, probeVars>>

SessionIdle ==
  /\ qoo10AuthCache = EmptyCache
  /\ calls = [c \in AllCallers |-> IdleCall]
  /\ authCount = 0

(***************************************************************************)
(* Qoo10: getExistingQoo10Asins.  The call runs to the await of the seller *)
(* key; each pass of the while loop (request, response, scan) is one step. *)
(***************************************************************************)
maxPage == 10

AMZ == <<"A", "M", "Z", "-">>

\* the seller codes the listings of the model carry
SellerCodes ==
  { AMZ \o Asin(1),
    <<"a", "m", "z", "-", "b">> \o Tail(Asin(1)),
    Asin(2),
    <<"b">> \o Tail(Asin(2)),
    <<"O", "T", "H", "E", "R", "-", "X">>,
    <<>>,
    AMZ \o Asin(9) }

RECURSIVE SeqsUpTo(_, _)
SeqsUpTo(S, n) ==
  IF n = 0 THEN {<<>>}
  ELSE LET shorter == SeqsUpTo(S, n - 1)
       IN shorter \cup {Append(q, x) : q \in {r \in shorter : Len(r) = n - 1}, x \in S}

\* the responses of GetAllGoodsInfo: the fetch or the JSON parse throws, a
\* status that is not OK, a body without an Items array, or a page of listings
PageResponses ==
  {[kind |-> "throw", ok |-> FALSE, isArray |-> FALSE, Items |-> <<>>],
   [kind |-> "http", ok |-> FALSE, isArray |-> FALSE, Items |-> <<>>],
   [kind |-> "http", ok |-> TRUE, isArray |-> FALSE, Items |-> <<>>]}
    \cup {[kind |-> "http", ok |-> TRUE, isArray |-> TRUE,
            Items |-> [k \in 1..Len(q) |-> [SellerCode |-> q[k]]]] :
            q \in SeqsUpTo(SellerCodes, MaxItems)}

\* the requests of the model
ProbeInputs ==
  { <<Asin(1), Asin(2)>>, <<Asin(2), Asin(3)>>, <<LowerAsin(1), Asin(1)>>,
    <<<<"x">>, <<>>>> }

\* found.add(x)
SetAdd(set, x) == IF x \in Range(set) THEN set ELSE Append(set, x)

\* the scan of one listing with its seller code compared as it is written
ScanOne_NoUpperCase(fnd, gd) ==
  LET sc == gd.SellerCode
  IN IF sc = <<>> THEN fnd
     ELSE IF startsWith(sc, AMZ)
     THEN IF slice(sc, 4) \in Range(target) THEN SetAdd(fnd, slice(sc, 4)) ELSE fnd
     ELSE IF sc \in Range(target) THEN SetAdd(fnd, sc)
     ELSE fnd

\* the body of `for (const gd of items)`
ScanOne(fnd, gd) ==
  LET sc == toUpperCase(gd.SellerCode)
  IN IF sc = <<>> THEN fnd
     ELSE IF startsWith(sc, AMZ)
     THEN IF slice(sc, 4) \in Range(target) THEN SetAdd(fnd, slice(sc, 4)) ELSE fnd
     ELSE IF sc \in Range(target) THEN SetAdd(fnd, sc)
     ELSE fnd

RECURSIVE ScanItems(_, _)
ScanItems(fnd, gds) ==
  IF gds = <<>> THEN fnd ELSE ScanItems(ScanOne(fnd, Head(gds)), Tail(gds))

\* the loop condition without the page cap
LoopContinues_NoCap == Len(found) < Len(target)

\* page <= maxPage && found.size < targetSet.size
LoopContinues == page <= maxPage /\ Len(found) < Len(target)

\* the response with a failed status rethrown
PageOutcome_HttpThrows(resp) ==
  IF resp.kind = "throw" \/ ~resp.ok THEN "throw"
  ELSE IF ~resp.isArray \/ resp.Items = <<>> THEN "break"
  ELSE "scan"

\* what the loop body does with the response: throw, break, or scan the page
PageOutcome(resp) ==
  IF resp.kind = "throw" THEN "throw"
  ELSE IF ~resp.ok THEN "break"
  ELSE IF ~resp.isArray \/ resp.Items = <<>> THEN "break"
  ELSE "scan"

\* what a response is logged as
PageKind(resp) ==
  IF resp.kind = "throw" THEN "throw"
  ELSE IF ~resp.ok THEN "http"
  ELSE IF ~resp.isArray THEN "none"
  ELSE IF resp.Items = <<>> THEN "empty"
  ELSE "items"

\* the identifiers that have an entry, with a listing code or without
LocalExisting_AnyEntry(tgt) ==
  LET set == {toUpperCase(items[k].asin) : k \in 1..Len(items)}
  IN SelectSeq(tgt, LAMBDA asin : asin \in set)

\* Qoo10 unset: the identifiers whose entry of items.json has a qoo10Id
LocalExisting(tgt) ==
  LET set == {toUpperCase(items[k].asin) :
                k \in {j \in 1..Len(items) : items[j].qoo10Id # <<>>}}
  IN SelectSeq(tgt, LAMBDA asin : asin \in set)

\* the call, up to a return or to `await getQoo10SellerAuthKey()`
getExistingQoo10AsinsCall(asins) ==
  /\ ppc = "idle"
  /\ target' = NormalizeAsins(asins)
  /\ IF target' = <<>>
     THEN existing' = <<>> /\ ppc' = "done" /\ UNCHANGED sessionVars
     ELSE IF CredentialsMissing
     THEN existing' = LocalExisting(target') /\ ppc' = "done" /\ UNCHANGED sessionVars
     ELSE /\ getQoo10SellerAuthKeyCall("probe")
          /\ ppc' = "auth"
          /\ UNCHANGED existing
  /\ UNCHANGED <<routeVars, envVars, now, fetchVars, found, page, sellerKey, pageLog, scanned>>

\* the seller key arrives, or the call throws what getQoo10SellerAuthKey threw
getExistingQoo10AsinsKey ==
  /\ ppc = "auth"
  /\ calls["probe"].pc \in {"returned", "threw"}
  /\ IF calls["probe"].pc = "returned"
     THEN sellerKey' = calls["probe"].ret /\ ppc' = "loop"
     ELSE UNCHANGED sellerKey /\ ppc' = "threw"
  /\ found' = <<>>
  /\ page' = 1
  /\ calls' = [calls EXCEPT !["probe"] = IdleCall]
  /\ UNCHANGED <<routeVars, envVars, now, fetchVars, qoo10AuthCache, authCount, target,
                 pageLog, scanned, existing>>

\* one pass of the while loop, for the response `resp` to its request; the
\* request of the next pass is sent as soon as this one has scanned its page
getExistingQoo10AsinsPass(resp) ==
  /\ ppc = "loop"
  /\ LoopContinues
  /\ pageLog' = Append(pageLog, [page |-> page, kind |-> PageKind(resp),
                                 key |-> sellerKey, at |-> now])
  /\ CASE PageOutcome(resp) = "throw" ->
            /\ ppc' = "threw"
            /\ UNCHANGED <<found, page, scanned, existing>>
       [] PageOutcome(resp) = "break" ->
            /\ ppc' = "done"
            /\ existing' = found
            /\ UNCHANGED <<found, page, scanned>>
       [] OTHER ->
            /\ found' = ScanItems(found, resp.Items)
            /\ scanned' = scanned \cup {resp.Items[k].SellerCode :
                                          k \in 1..Len(resp.Items)}
            /\ page' = page + 1
            /\ UNCHANGED <<ppc, existing>>
  /\ UNCHANGED <<routeVars, envVars, now, fetchVars, sessionVars, target, sellerKey>>

getExistingQoo10AsinsPage ==
  \E resp \in PageResponses : getExistingQoo10AsinsPass(resp)

\* the loop condition fails: return Array.from(found)
getExistingQoo10AsinsReturn ==
  /\ ppc = "loop"
  /\ ~LoopContinues
  /\ ppc' = "done"
  /\ existing' = found
  /\ UNCHANGED <<routeVars, envVars, now, fetchVars, sessionVars, target, found, page,
                 sellerKey, pageLog, scanned>>

ProbeIdle ==
  /\ ppc = "idle"
  /\ target = <<>>
  /\ found = <<>>
  /\ page = 1
  /\ sellerKey = ""
  /\ pageLog = <<>>
  /\ scanned = {}
  /\ existing = <<>>

(***************************************************************************)
(* Qoo10: qoo10CreateItem.  The call runs to the await of the seller key,  *)
(* from the key to the await of the fetch of ItemsBasic.SetNewGoods, and   *)
(* from the response to its end.                                           *)
(***************************************************************************)
NoCode == <<>>

\* a call: where it is, the identifier it lists, what it returned or threw
IdleCreate == [pc |-> "idle", asin |-> <<>>, qoo10ItemCode |-> NoCode, err |-> ""]

\* data.ResultObject || {}: the fields a listing code is looked for in
ResultObject(GdNo, ItemCode, item_code, goodsNo) ==
  [GdNo |-> GdNo, ItemCode |-> ItemCode, item_code |-> item_code,
   goodsNo |-> goodsNo]

NoObject == ResultObject(NoCode, NoCode, NoCode, NoCode)

NoCreateResp ==
  [kind |-> "none", ok |-> FALSE, ResultCode |-> 0, ResultObject |-> NoObject]

\* the responses of ItemsBasic.SetNewGoods: the fetch or the JSON parse throws,
\* a status that is not OK, or a body with a result code and a result object
CreateResponses ==
  {[kind |-> "throw", ok |-> FALSE, ResultCode |-> 0, ResultObject |-> NoObject],
   [kind |-> "http", ok |-> FALSE, ResultCode |-> 0,
    ResultObject |-> ResultObject(<<"G">>, NoCode, NoCode, NoCode)]}
    \cup {[kind |-> "http", ok |-> TRUE, ResultCode |-> rc, ResultObject |-> ro] :
            rc \in {0, -10000},
            ro \in {NoObject,
                    ResultObject(<<"G">>, NoCode, NoCode, NoCode),
                    ResultObject(<<"G">>, <<"I">>, <<"i">>, <<"g">>),
                    ResultObject(NoCode, NoCode, <<"i">>, <<"g">>),
                    ResultObject(NoCode, NoCode, NoCode, <<"g">>)}}

\* the seller code written with another separator
SellerCode_Underscore(asin) == <<"A", "M", "Z", "_">> \o asin

\* `AMZ-${asin}`
SellerCode(asin) == AMZ \o asin

\* the checks on the response with the result code not looked at
CreateOutcome_IgnoresResultCode(resp) ==
  IF resp.kind = "throw" THEN "transport"
  ELSE IF ~resp.ok THEN "http"
  ELSE "ok"

\* what the checks on the response make of it
CreateOutcome(resp) ==
  IF resp.kind = "throw" THEN "transport"
  ELSE IF ~resp.ok THEN "http"
  ELSE IF resp.ResultCode # 0 THEN "code"
  ELSE "ok"

\* obj.GdNo || obj.ItemCode || obj.item_code || obj.goodsNo || ""
ItemCodeOf(obj) ==
  IF obj.GdNo # NoCode THEN obj.GdNo
  ELSE IF obj.ItemCode # NoCode THEN obj.ItemCode
  ELSE IF obj.item_code # NoCode THEN obj.item_code
  ELSE IF obj.goodsNo # NoCode THEN obj.goodsNo
  ELSE NoCode

\* the call up to `await getQoo10SellerAuthKey()`
qoo10CreateItemCall(asin) ==
  /\ createCall.pc = "idle"
  /\ getQoo10SellerAuthKeyCall("publish")
  /\ createCall' = [IdleCreate EXCEPT !.pc = "auth", !.asin = asin]

\* the seller key arrives and the request is sent, or the call throws what
\* getQoo10SellerAuthKey threw
qoo10CreateItemKey ==
  /\ createCall.pc = "auth"
  /\ calls["publish"].pc \in {"returned", "threw"}
  /\ IF calls["publish"].pc = "returned"
     THEN /\ createLog' = Append(createLog,
                                 [item |-> clPos,
                                  SellerCode |-> SellerCode(createCall.asin),
                                  key |-> calls["publish"].ret,
                                  sentAt |-> now,
                                  resp |-> NoCreateResp,
                                  outcome |-> "none"])
          /\ createCall' = [createCall EXCEPT !.pc = "create"]
     ELSE /\ UNCHANGED createLog
          /\ createCall' = [createCall EXCEPT !.pc = "threw",
                                              !.err = calls["publish"].err]
  /\ calls' = [calls EXCEPT !["publish"] = IdleCall]
  /\ UNCHANGED <<envVars, now, fetchVars, qoo10AuthCache, authCount, probeVars,
                 cpc, itemsPayload, clItems, asinIndex, clPos, clResults,
                 refreshVars>>

\* from the response of ItemsBasic.SetNewGoods to the throw or the return
qoo10CreateItemResponse ==
  /\ createCall.pc = "create"
  /\ \E resp \in CreateResponses :
       /\ createLog' = [createLog EXCEPT ![Len(createLog)].resp = resp,
                                        ![Len(createLog)].outcome =
                                           CreateOutcome(resp)]
       /\ IF CreateOutcome(resp) = "ok"
          THEN createCall' = [createCall EXCEPT
                                !.pc = "returned",
                                !.qoo10ItemCode = ItemCodeOf(resp.ResultObject)]
          ELSE createCall' = [createCall EXCEPT !.pc = "threw",
                                                !.err = CreateOutcome(resp)]
  /\ UNCHANGED <<envVars, now, fetchVars, sessionVars, probeVars,
                 cpc, itemsPayload, clItems, asinIndex, clPos, clResults,
                 refreshVars>>

(***************************************************************************)
(* POST /qoo10/create-listings.  The route loads items.json, then handles  *)
(* one payload per pass of the for loop, and saves items.json at the end.  *)
(***************************************************************************)
\* a listing request as a client sends it
Payload(asin) ==
  [asin |-> asin, title |-> <<"T">>, price |-> 1500, imageUrl |-> Undefined]

\* a well-formed identifier that no initial catalog holds, in lower case
NewAsin == <<"b">> \o Tail(Asin(3))

\* the bodies of the model; the route does not trim, so a padded identifier is
\* malformed here
PublishInputs ==
  { <<>>,
    <<Payload(Asin(1))>>,
    <<Payload(<<"x">>)>>,
    <<Payload(Asin(1)), Payload(LowerAsin(1)), Payload(NewAsin)>>,
    <<Payload(NewAsin), Payload(Asin(3))>>,
    <<Payload(<<>>), Payload(Asin(2)), Payload(Asin(3))>> }

\* new Map(items.map((it, idx) => [String(it.asin || "").toUpperCase(), idx]))
IndexOf(list) ==
  [a \in {toUpperCase(list[k].asin) : k \in 1..Len(list)} |->
     CHOOSE k \in 1..Len(list) :
       /\ toUpperCase(list[k].asin) = a
       /\ \A j \in (k + 1)..Len(list) : toUpperCase(list[j].asin) # a]

\* `LOCAL-${asin}`
LocalCode_Bare(asin) == asin

LocalCode(asin) == <<"L", "O", "C", "A", "L", "-">> \o asin

\* the entry pushed for an identifier the index does not hold
NewEntry(asin, payload, code, t) ==
  [asin |-> asin,
   name |-> IF payload.title # <<>> THEN payload.title ELSE asin,
   qoo10Id |-> code,
   mainImage |-> payload.imageUrl,
   amazonPrice |-> payload.price,
   inStock |-> TRUE,
   updatedAt |-> t]

\* the upsert with the listing code left as it was
Upsert_KeepsCode(list, index, asin, payload, code, t) ==
  IF asin \in DOMAIN index
  THEN [list EXCEPT ![index[asin]] = [@ EXCEPT !.updatedAt = t]]
  ELSE Append(list, NewEntry(asin, payload, NoCode, t))

\* items[idx] = {...items[idx], qoo10Id, updatedAt} or items.push({...})
Upsert(list, index, asin, payload, code, t) ==
  IF asin \in DOMAIN index
  THEN [list EXCEPT ![index[asin]] = [@ EXCEPT !.qoo10Id = code, !.updatedAt = t]]
  ELSE Append(list, NewEntry(asin, payload, code, t))

InvalidResult(asin) ==
  [asin |-> asin, ok |-> FALSE, code |-> "INVALID_ASIN",
   qoo10ItemCode |-> Undefined, message |-> "invalid"]

FailedResult(asin, err) ==
  [asin |-> asin, ok |-> FALSE, code |-> "CREATE_FAILED",
   qoo10ItemCode |-> Undefined, message |-> err]

OkResult(asin, code, message) ==
  [asin |-> asin, ok |-> TRUE, code |-> "", qoo10ItemCode |-> code,
   message |-> message]

\* the request arrives: an empty body is answered at once, else items.json is
\* loaded and indexed
PublishCall(payloads) ==
  /\ cpc = "idle"
  /\ itemsPayload' = payloads
  /\ clResults' = <<>>
  /\ IF payloads = <<>>
     THEN cpc' = "done" /\ UNCHANGED <<clItems, asinIndex, clPos>>
     ELSE /\ clItems' = items
          /\ asinIndex' = IndexOf(items)
          /\ clPos' = 1
          /\ cpc' = "item"
  /\ UNCHANGED <<envVars, now, fetchVars, sessionVars, probeVars, createCall,
                 createLog, refreshVars>>

\* one pass of the for loop, up to `continue` or `await qoo10CreateItem(...)`
PublishItem ==
  /\ cpc = "item"
  /\ clPos <= Len(itemsPayload)
  /\ LET payload == itemsPayload[clPos]
         asin == toUpperCase(payload.asin)
     IN IF ~IsAsin(asin)
        THEN /\ clResults' = Append(clResults, InvalidResult(asin))
             /\ clPos' = clPos + 1
             /\ UNCHANGED <<cpc, clItems, createCall, sessionVars>>
        ELSE IF CredentialsMissing
        THEN /\ clItems' = Upsert(clItems, asinIndex, asin, payload,
                                  LocalCode(asin), now)
             /\ clResults' = Append(clResults,
                                    OkResult(asin, LocalCode(asin), "local"))
             /\ clPos' = clPos + 1
             /\ UNCHANGED <<cpc, createCall, sessionVars>>
        ELSE /\ qoo10CreateItemCall(asin)
             /\ cpc' = "await"
             /\ UNCHANGED <<clItems, clResults, clPos>>
  /\ UNCHANGED <<envVars, now, fetchVars, probeVars, itemsPayload, asinIndex,
                 createLog, refreshVars>>

\* the rest of the pass with a failed item ending the loop
PublishItemDone_FailureEndsLoop ==
  /\ cpc = "await"
  /\ createCall.pc \in {"returned", "threw"}
  /\ LET payload == itemsPayload[clPos]
         asin == createCall.asin
     IN IF createCall.pc = "returned"
        THEN /\ clItems' = Upsert(clItems, asinIndex, asin, payload,
                                  createCall.qoo10ItemCode, now)
             /\ clResults' = Append(clResults,
                                    OkResult(asin, createCall.qoo10ItemCode,
                                             "listed"))
             /\ clPos' = clPos + 1
        ELSE /\ clResults' = Append(clResults, FailedResult(asin, createCall.err))
             /\ clPos' = Len(itemsPayload) + 1
             /\ UNCHANGED clItems
  /\ createCall' = IdleCreate
  /\ cpc' = "item"
  /\ UNCHANGED <<envVars, now, fetchVars, sessionVars, probeVars, itemsPayload,
                 asinIndex, createLog, refreshVars>>

\* qoo10CreateItem has returned or thrown: the rest of the pass
PublishItemDone ==
  /\ cpc = "await"
  /\ createCall.pc \in {"returned", "threw"}
  /\ LET payload == itemsPayload[clPos]
         asin == createCall.asin
     IN IF createCall.pc = "returned"
        THEN /\ clItems' = Upsert(clItems, asinIndex, asin, payload,
                                  createCall.qoo10ItemCode, now)
             /\ clResults' = Append(clResults,
                                    OkResult(asin, createCall.qoo10ItemCode,
                                             "listed"))
        ELSE /\ clResults' = Append(clResults, FailedResult(asin, createCall.err))
             /\ UNCHANGED clItems
  /\ createCall' = IdleCreate
  /\ clPos' = clPos + 1
  /\ cpc' = "item"
  /\ UNCHANGED <<envVars, now, fetchVars, sessionVars, probeVars, itemsPayload,
                 asinIndex, createLog, refreshVars>>

\* after the loop: saveItemsData(items) and the answer
PublishSave ==
  /\ cpc = "item"
  /\ clPos > Len(itemsPayload)
  /\ items' = clItems
  /\ cpc' = "done"
  /\ UNCHANGED <<KEEPA_API_KEY, QOO10_API_KEY, QOO10_USER_ID, QOO10_USER_PW, now,
                 fetchVars, sessionVars, probeVars, itemsPayload, clItems,
                 asinIndex, clPos, clResults, createCall, createLog, refreshVars>>

PublishIdle ==
  /\ cpc = "idle"
  /\ itemsPayload = <<>>
  /\ clItems = <<>>
  /\ asinIndex = <<>>
  /\ clPos = 1
  /\ clResults = <<>>
  /\ createCall = IdleCreate
  /\ createLog = <<>>

RefreshIdle ==
  /\ rpc = "idle"
  /\ rfItems = <<>>
  /\ updatedCount = 0

(***************************************************************************)
(* POST /items/refresh.  The route loads items.json and awaits             *)
(* getAmazonInfos for its identifiers; from the facts to the save is one   *)
(* step.                                                                   *)
(***************************************************************************)
\* the catalogs the route is run on: entries with and without a name, a price,
\* a listing; an identifier in lower case, one that is none, one held twice
RefreshCatalogs ==
  InitialCatalogs
    \cup { <<Item(<<"b">> \o Tail(Asin(1)), <<>>, 700, <<>>),
             Item(<<"x">>, <<"N">>, 0, <<>>),
             Item(Asin(1), <<"N">>, 1200, <<"Q", "1">>)>>,
           <<Item(LowerAsin(2), <<"N">>, 0, <<>>), Item(Asin(1), <<>>, 0, <<>>)>> }

\* items.map(String(it.asin || "").toUpperCase()).filter(regex), in a Set
RefreshAsins(list) ==
  Dedupe(FilterAsins([k \in 1..Len(list) |-> toUpperCase(list[k].asin)]))

\* infoMap.has(asin) for infoMap = new Map(infos.map((i) => [i.asin, i]))
HasInfo(infos, asin) == \E k \in 1..Len(infos) : infos[k].asin = asin

\* infoMap.get(asin): of the facts with the identifier, the last
InfoOf(infos, asin) ==
  infos[CHOOSE k \in 1..Len(infos) :
          /\ infos[k].asin = asin
          /\ \A j \in (k + 1)..Len(infos) : infos[j].asin # asin]

\* the entry with every fetched field written over the stored one
MergeEntry_FactOverwrites(it, info, t) ==
  [it EXCEPT !.asin = toUpperCase(it.asin),
             !.name = info.title,
             !.amazonPrice = info.price,
             !.mainImage = info.image,
             !.inStock = info.price > 0,
             !.updatedAt = t]

\* {...it, asin, name: it.name || info.title || asin,
\*  amazonPrice: info.price || it.amazonPrice || 0,
\*  mainImage: info.image || it.mainImage, inStock: info.price > 0, updatedAt}
MergeEntry(it, info, t) ==
  LET asin == toUpperCase(it.asin)
  IN [it EXCEPT !.asin = asin,
                !.name = IF it.name # <<>> THEN it.name
                         ELSE IF info.title # <<>> THEN info.title
                         ELSE asin,
                !.amazonPrice = IF info.price # 0 THEN info.price
                                ELSE it.amazonPrice,
                !.mainImage = IF info.image \notin {Undefined, <<>>}
                              THEN info.image
                              ELSE it.mainImage,
                !.inStock = info.price > 0,
                !.updatedAt = t]

\* the map with the entries that have no fact left out
NewItems_DropsUnmatched(list, infos, t) ==
  LET kept == SelectSeq(list, LAMBDA it : HasInfo(infos, toUpperCase(it.asin)))
  IN [k \in 1..Len(kept) |->
        MergeEntry(kept[k], InfoOf(infos, toUpperCase(kept[k].asin)), t)]

\* items.map((it) => ...)
NewItems(list, infos, t) ==
  [k \in 1..Len(list) |->
     IF HasInfo(infos, toUpperCase(list[k].asin))
     THEN MergeEntry(list[k], InfoOf(infos, toUpperCase(list[k].asin)), t)
     ELSE list[k]]

\* updatedCount after the map
UpdatedCount(list, infos) ==
  Cardinality({k \in 1..Len(list) : HasInfo(infos, toUpperCase(list[k].asin))})

\* the request arrives: an empty catalog is answered at once, else
\* getAmazonInfos is called for its identifiers
RefreshCall ==
  /\ rpc = "idle"
  /\ rfItems' = items
  /\ updatedCount' = 0
  /\ IF items = <<>>
     THEN rpc' = "done" /\ UNCHANGED fetchVars
     ELSE rpc' = "fetch" /\ getAmazonInfosCall(RefreshAsins(items))
  /\ UNCHANGED <<envVars, now, sessionVars, probeVars, publishVars>>

\* the facts are there: the map, saveItemsData(newItems) and the answer
RefreshMerge ==
  /\ rpc = "fetch"
  /\ fpc = "done"
  /\ items' = NewItems(rfItems, results, now)
  /\ updatedCount' = UpdatedCount(rfItems, results)
  /\ rpc' = "done"
  /\ UNCHANGED <<KEEPA_API_KEY, QOO10_API_KEY, QOO10_USER_ID, QOO10_USER_PW, now,
                 fetchVars, sessionVars, probeVars, publishVars, rfItems>>

(***************************************************************************)
(* The specifications: one per operation, each from the state after the    *)
(* module is loaded.                                                       *)
(***************************************************************************)
FetchIdle ==
  /\ fpc = "idle"
  /\ uniqueAsins = <<>>
  /\ i = 0
  /\ results = <<>>
  /\ keepaLog = <<>>

FetchInit ==
  /\ KEEPA_API_KEY \in BOOLEAN
  /\ QOO10_API_KEY = TRUE /\ QOO10_USER_ID = TRUE /\ QOO10_USER_PW = TRUE
  /\ items \in InitialCatalogs
  /\ KEEPA_API_KEY => items = <<>>   \* items.json is not read when the key is set
  /\ now = StartMs
  /\ FetchIdle
  /\ SessionIdle
  /\ ProbeIdle
  /\ PublishIdle
  /\ RefreshIdle

FetchNext ==
  \/ \E asins \in FetchInputs : FetchFacts(asins)
  \/ getAmazonInfosBatch
  \/ getAmazonInfosReturn

SpecFetch == FetchInit /\ [][FetchNext]_vars

SessionInit ==
  /\ KEEPA_API_KEY = TRUE
  /\ QOO10_API_KEY \in BOOLEAN
  /\ QOO10_USER_ID \in BOOLEAN
  /\ QOO10_USER_PW \in BOOLEAN
  /\ items = <<>>
  /\ now = StartMs
  /\ FetchIdle
  /\ SessionIdle
  /\ ProbeIdle
  /\ PublishIdle
  /\ RefreshIdle

SessionNext ==
  \/ \E c \in Callers : GetSession(c)
  \/ \E c \in Callers : GetSessionResponse(c)
  \/ \E c \in Callers : GetSessionDone(c)
  \/ Tick

SpecSession == SessionInit /\ [][SessionNext]_vars

\* the route has answered; the next request starts from scratch
ProbeAgain ==
  /\ ppc \in {"done", "threw"}
  /\ ppc' = "idle"
  /\ target' = <<>>
  /\ found' = <<>>
  /\ page' = 1
  /\ sellerKey' = ""
  /\ pageLog' = <<>>
  /\ scanned' = {}
  /\ existing' = <<>>
  /\ UNCHANGED <<routeVars, envVars, now, fetchVars, sessionVars>>

ProbeInit ==
  /\ KEEPA_API_KEY = TRUE
  /\ QOO10_API_KEY = TRUE
  /\ QOO10_USER_ID = TRUE
  /\ QOO10_USER_PW \in BOOLEAN
  /\ items \in InitialCatalogs
  /\ QOO10_USER_PW => items = <<>>   \* items.json is not read when Qoo10 is set
  /\ now = StartMs
  /\ FetchIdle
  /\ SessionIdle
  /\ ProbeIdle
  /\ PublishIdle
  /\ RefreshIdle

ProbeNext ==
  \/ \E asins \in ProbeInputs : getExistingQoo10AsinsCall(asins)
  \/ GetSessionResponse("probe")
  \/ getExistingQoo10AsinsKey
  \/ getExistingQoo10AsinsPage
  \/ getExistingQoo10AsinsReturn
  \/ ProbeAgain

SpecProbe == ProbeInit /\ [][ProbeNext]_vars

PublishInit ==
  /\ KEEPA_API_KEY = TRUE
  /\ QOO10_API_KEY \in BOOLEAN
  /\ QOO10_USER_ID \in BOOLEAN
  /\ QOO10_USER_PW \in BOOLEAN
  /\ items \in InitialCatalogs
  /\ now = StartMs
  /\ FetchIdle
  /\ SessionIdle
  /\ ProbeIdle
  /\ PublishIdle
  /\ RefreshIdle

PublishNext ==
  \/ \E payloads \in PublishInputs : PublishCall(payloads)
  \/ PublishItem
  \/ GetSessionResponse("publish")
  \/ qoo10CreateItemKey
  \/ qoo10CreateItemResponse
  \/ PublishItemDone
  \/ PublishSave

SpecPublish == PublishInit /\ [][PublishNext]_vars

RefreshInit ==
  /\ KEEPA_API_KEY \in BOOLEAN
  /\ QOO10_API_KEY = TRUE
  /\ QOO10_USER_ID = TRUE
  /\ QOO10_USER_PW = TRUE
  /\ items \in RefreshCatalogs
  /\ now = StartMs
  /\ FetchIdle
  /\ SessionIdle
  /\ ProbeIdle
  /\ PublishIdle
  /\ RefreshIdle

RefreshNext ==
  \/ RefreshCall
  \/ getAmazonInfosBatch
  \/ getAmazonInfosReturn
  \/ RefreshMerge

SpecRefresh == RefreshInit /\ [][RefreshNext]_vars

\* the server without Qoo10 credentials: listings are made locally and looked
\* up locally
DegradedInit ==
  /\ KEEPA_API_KEY = TRUE
  /\ QOO10_API_KEY \in BOOLEAN
  /\ QOO10_USER_ID \in BOOLEAN
  /\ QOO10_USER_PW \in BOOLEAN
  /\ ~(QOO10_API_KEY /\ QOO10_USER_ID /\ QOO10_USER_PW)
  /\ items \in InitialCatalogs
  /\ now = StartMs
  /\ FetchIdle
  /\ SessionIdle
  /\ ProbeIdle
  /\ PublishIdle
  /\ RefreshIdle

DegradedProbeInputs ==
  { <<Asin(3)>>, <<LowerAsin(1)>>, <<Asin(2)>>, <<Asin(1), Asin(2), Asin(3)>> }

DegradedNext ==
  \/ \E payloads \in PublishInputs : PublishCall(payloads)
  \/ PublishItem
  \/ PublishSave
  \/ \E asins \in DegradedProbeInputs : getExistingQoo10AsinsCall(asins)
  \/ ProbeAgain

SpecDegraded == DegradedInit /\ [][DegradedNext]_vars

\* a lookup while time passes: the key may come from the cache, filled by a
\* call that ended before, and each page takes its time to arrive
TimedProbeInit ==
  /\ KEEPA_API_KEY = TRUE
  /\ QOO10_API_KEY = TRUE
  /\ QOO10_USER_ID = TRUE
  /\ QOO10_USER_PW = TRUE
  /\ items = <<>>
  /\ now = StartMs
  /\ FetchIdle
  /\ SessionIdle
  /\ ProbeIdle
  /\ PublishIdle
  /\ RefreshIdle

\* pages that keep the loop going, and one that stops it
TimedPageResponses ==
  {[kind |-> "http", ok |-> TRUE, isArray |-> TRUE,
    Items |-> <<[SellerCode |-> <<"O", "T", "H", "E", "R", "-", "X">>]>>],
   [kind |-> "http", ok |-> FALSE, isArray |-> FALSE, Items |-> <<>>]}

\* time passes while a response is awaited, not between the return of
\* getQoo10SellerAuthKey and the first request
TimedTick ==
  /\ ~(ppc = "auth" /\ calls["probe"].pc \in {"returned", "threw"})
  /\ Tick

TimedProbeNext ==
  \/ ppc = "idle" /\ GetSession("c1")
  \/ ppc = "idle" /\ GetSessionResponse("c1")
  \/ getExistingQoo10AsinsCall(<<Asin(1), Asin(2)>>)
  \/ GetSessionResponse("probe")
  \/ getExistingQoo10AsinsKey
  \/ \E resp \in TimedPageResponses : getExistingQoo10AsinsPass(resp)
  \/ getExistingQoo10AsinsReturn
  \/ TimedTick

SpecTimedProbe == TimedProbeInit /\ [][TimedProbeNext]_vars

\* listings are created, then looked up: the pages of GetAllGoodsInfo carry
\* the seller codes that SetNewGoods accepted
RoundTripInit ==
  /\ KEEPA_API_KEY = TRUE
  /\ QOO10_API_KEY = TRUE
  /\ QOO10_USER_ID = TRUE
  /\ QOO10_USER_PW = TRUE
  /\ items = <<>>
  /\ now = StartMs
  /\ FetchIdle
  /\ SessionIdle
  /\ ProbeIdle
  /\ PublishIdle
  /\ RefreshIdle

RoundTripInputs ==
  { <<Payload(Asin(1)), Payload(NewAsin)>>, <<Payload(Asin(2))>> }

RoundTripTargets ==
  { <<Asin(1), Asin(3)>>, <<Asin(2), Asin(3)>>, <<LowerAsin(1), Asin(2), Asin(3)>> }

\* the seller codes of the listings Qoo10 holds after the batch
ListedCodes ==
  {createLog[j].SellerCode :
     j \in {k \in 1..Len(createLog) : createLog[k].outcome = "ok"}}

\* a page of those listings, or a page without items
RoundTripPages ==
  {[kind |-> "http", ok |-> TRUE, isArray |-> TRUE,
    Items |-> [k \in 1..Len(q) |-> [SellerCode |-> q[k]]]] :
     q \in SeqsUpTo(ListedCodes, MaxItems)}

RoundTripNext ==
  \/ \E payloads \in RoundTripInputs : PublishCall(payloads)
  \/ PublishItem
  \/ GetSessionResponse("publish")
  \/ qoo10CreateItemKey
  \/ qoo10CreateItemResponse
  \/ PublishItemDone
  \/ PublishSave
  \/ cpc = "done" /\ \E asins \in RoundTripTargets : getExistingQoo10AsinsCall(asins)
  \/ GetSessionResponse("probe")
  \/ getExistingQoo10AsinsKey
  \/ \E resp \in RoundTripPages : getExistingQoo10AsinsPass(resp)
  \/ getExistingQoo10AsinsReturn

SpecRoundTrip == RoundTripInit /\ [][RoundTripNext]_vars

\* the server answering one request: whichever operation starts, it is the
\* only one in progress
ServerInit ==
  /\ KEEPA_API_KEY = TRUE
  /\ QOO10_API_KEY = TRUE
  /\ QOO10_USER_ID = TRUE
  /\ QOO10_USER_PW = TRUE
  /\ items \in InitialCatalogs
  /\ now = StartMs
  /\ FetchIdle
  /\ SessionIdle
  /\ ProbeIdle
  /\ PublishIdle
  /\ RefreshIdle

NoOtherThan(op) ==
  /\ op # "fetch" => fpc = "idle"
  /\ op # "probe" => ppc = "idle"
  /\ op # "publish" => cpc = "idle"
  /\ op # "session" => \A c \in Callers : calls[c].pc = "idle"

ServerFetchInputs == {[k \in 1..n |-> Asin(k)] : n \in {1, chunkSize + 1, MaxN}}

ServerNext ==
  \/ NoOtherThan("fetch") /\ \E asins \in ServerFetchInputs : FetchFacts(asins)
  \/ getAmazonInfosBatch
  \/ getAmazonInfosReturn
  \/ NoOtherThan("session") /\ \E c \in Callers : GetSession(c)
  \/ \E c \in AllCallers : GetSessionResponse(c)
  \/ NoOtherThan("probe") /\ getExistingQoo10AsinsCall(<<Asin(1), Asin(2)>>)
  \/ getExistingQoo10AsinsKey
  \/ getExistingQoo10AsinsPage
  \/ getExistingQoo10AsinsReturn
  \/ NoOtherThan("publish") /\ \E payloads \in PublishInputs : PublishCall(payloads)
  \/ PublishItem
  \/ qoo10CreateItemKey
  \/ qoo10CreateItemResponse
  \/ PublishItemDone
  \/ PublishSave

SpecServer == ServerInit /\ [][ServerNext]_vars

(***************************************************************************)
(* Claims about getAmazonInfos, checked under SpecFetch.                   *)
(***************************************************************************)
LiveDone == fpc = "done" /\ KEEPA_API_KEY /\ uniqueAsins # <<>>

FactsFor(asin) == {k \in 1..Len(results) : results[k].asin = asin}

\* C1: a live getAmazonInfos returns exactly one fact for each requested
\* identifier, whatever each Keepa call answered: none missing, none twice.
C1_OneFactPerIdentifier ==
  LiveDone => \A k \in 1..Len(uniqueAsins) :
                Cardinality(FactsFor(uniqueAsins[k])) = 1

IsFailure(entry) == entry.resp.kind \in {"http", "throw"}

\* the facts the logged requests up to the k-th account for
RECURSIVE FactsOfLog(_)
FactsOfLog(k) ==
  IF k = 0 THEN <<>>
  ELSE FactsOfLog(k - 1) \o BatchFacts(keepaLog[k].chunk, keepaLog[k].resp)

C2_FailedStep ==
  (Len(keepaLog') = Len(keepaLog) + 1 /\ IsFailure(keepaLog'[Len(keepaLog')]))
    => LET chunk == keepaLog'[Len(keepaLog')].chunk
       IN /\ fpc' = "loop"
          /\ Len(results') = Len(results) + Len(chunk)
          /\ SubSeq(results', 1, Len(results)) = results
          /\ \A k \in 1..Len(chunk) :
               LET f == results'[Len(results) + k]
               IN /\ f.asin = chunk[k]
                  /\ f.price = 0
                  /\ f.sellerCount = 0
                  /\ f.isPrime = TRUE
                  /\ f.shipDays = 3

C2_LaterBatches ==
  LiveDone =>
    /\ Len(keepaLog) * 100 >= Len(uniqueAsins)
    /\ \A k \in 1..Len(keepaLog) :
         keepaLog[k].chunk = ArraySlice(uniqueAsins, (k - 1) * 100, k * 100)
    /\ results = FactsOfLog(Len(keepaLog))

\* C2: a Keepa request that fails (HTTP status or thrown error) does not fail
\* getAmazonInfos: the step pushes exactly one placeholder (price 0, no seller,
\* prime, 3 ship days) per identifier of that chunk, in order, and the loop goes
\* on, so that every chunk is requested and contributes what its own response
\* gives.
C2_FailedBatchPlaceholders == [][C2_FailedStep]_vars /\ []C2_LaterBatches

C2_Witness ==
  /\ LiveDone
  /\ Len(keepaLog) = 3
  /\ IsFailure(keepaLog[1])
  /\ keepaLog[2].resp.kind = "ok" /\ keepaLog[2].resp.isArray
  /\ IsFailure(keepaLog[3])
  /\ Len(results) = Len(uniqueAsins)

\* C3: a live getAmazonInfos of n identifiers sends ceil(n / 100) requests; the
\* chunks are disjoint and cover the identifiers, every chunk but the last
\* holds 100 and none holds more.
C3_BatchPartition ==
  /\ \A k \in 1..Len(keepaLog) :
       Len(keepaLog[k].chunk) >= 1 /\ Len(keepaLog[k].chunk) <= 100
  /\ (fpc = "done" /\ KEEPA_API_KEY) =>
       LET n == Len(uniqueAsins)
           m == Len(keepaLog)
       IN /\ m = (n + 99) \div 100
          /\ \A k \in 1..(m - 1) : Len(keepaLog[k].chunk) = 100
          /\ \A j, k \in 1..m :
               j # k => Range(keepaLog[j].chunk) \cap Range(keepaLog[k].chunk) = {}
          /\ UNION {Range(keepaLog[k].chunk) : k \in 1..m} = Range(uniqueAsins)

C3_Witness ==
  /\ LiveDone
  /\ Len(uniqueAsins) = 250
  /\ Len(keepaLog) = 3
  /\ Len(keepaLog[1].chunk) = 100
  /\ Len(keepaLog[2].chunk) = 100
  /\ Len(keepaLog[3].chunk) = 50

(***************************************************************************)
(* Claims about getQoo10SellerAuthKey, checked under SpecSession.          *)
(***************************************************************************)
CallStarts(c) == calls[c].pc = "idle" /\ calls'[c].pc # "idle"

ResponseHandled(c) == calls[c].pc = "auth" /\ calls'[c].pc # "auth"

C4_Step ==
  \A c \in AllCallers :
    /\ (CallStarts(c) /\ qoo10AuthCache.key # "" /\ now < qoo10AuthCache.expiresAt)
         => /\ calls'[c].pc = "returned"
            /\ calls'[c].ret = qoo10AuthCache.key
            /\ authCount' = authCount
            /\ qoo10AuthCache' = qoo10AuthCache
    /\ (CallStarts(c) /\ qoo10AuthCache.key # "" /\ now >= qoo10AuthCache.expiresAt)
         => /\ calls'[c].pc = "auth"
            /\ authCount' = authCount + 1
    /\ ResponseHandled(c)
         => /\ authCount' = authCount
            /\ calls'[c].pc = "returned"
                 => /\ calls'[c].ret \in Tokens
                    /\ qoo10AuthCache'.key = calls'[c].ret

\* C4: while a key is cached and now < expiresAt, a call returns that key and
\* sends no authentication request; a call made with now >= expiresAt sends
\* exactly one, and caches the key it gets.
C4_CachedWindow == [][C4_Step]_vars

C4_Witness ==
  \E c, d \in Callers :
    /\ calls[c].pc = "returned" /\ calls[c].exchanges = 0
    /\ calls[c].ret = calls[c].saw.key
    /\ calls[d].pc = "returned" /\ calls[d].exchanges = 1
    /\ calls[d].saw.key # "" /\ calls[d].now >= calls[d].saw.expiresAt
    /\ qoo10AuthCache.key = calls[d].ret
    /\ authCount = 2

C5_Step ==
  \A c \in AllCallers :
    (calls[c].pc # "returned" /\ calls'[c].pc = "returned")
      => \/ /\ calls[c].pc = "idle"
            /\ calls'[c].ret = qoo10AuthCache.key
            /\ calls'[c].ret # ""
            /\ now < qoo10AuthCache.expiresAt
         \/ /\ calls[c].pc = "auth"
            /\ calls'[c].resp.kind = "http" /\ calls'[c].resp.ok
            /\ calls'[c].ret = calls'[c].resp.ResultObject
            /\ calls'[c].ret # ""

\* C5: a key that getQoo10SellerAuthKey returns is the cached one, at a time
\* before its expiresAt, or the one the call's own authentication got.
C5_NeverPastExpiry == [][C5_Step]_vars

C5_Witness ==
  \E c \in Callers :
    /\ calls[c].pc = "returned" /\ calls[c].exchanges = 0
    /\ calls[c].ret \in Tokens
    /\ calls[c].now + TickMs = calls[c].saw.expiresAt
    /\ now >= qoo10AuthCache.expiresAt

Rejected(r) ==
  r.kind = "http" /\ (~r.ok \/ r.ResultCode # 0 \/ r.ResultObject = "")

C6_Step ==
  \A c \in AllCallers :
    /\ (ResponseHandled(c) /\ Rejected(calls'[c].resp))
         => /\ calls'[c].pc = "threw"
            /\ calls'[c].err \in {"http", "auth"}
            /\ qoo10AuthCache' = qoo10AuthCache
    /\ (CallStarts(c) /\ QOO10_API_KEY /\ QOO10_USER_ID /\ QOO10_USER_PW
          /\ (qoo10AuthCache.key = "" \/ now >= qoo10AuthCache.expiresAt))
         => /\ calls'[c].pc = "auth"
            /\ authCount' = authCount + 1

\* C6: a rejected authentication (HTTP status not OK, ResultCode not 0, empty
\* ResultObject) makes the call throw and writes nothing to the cache; a call
\* that finds no valid key authenticates again.
C6_RejectedAuthLeavesCache == [][C6_Step]_vars

C6_Witness ==
  \E c, d \in Callers :
    /\ calls[c].pc = "threw" /\ calls[c].err = "auth"
    /\ calls[c].resp.ok /\ calls[c].resp.ResultCode # 0
    /\ calls[c].resp.ResultObject \in Tokens
    /\ qoo10AuthCache = EmptyCache
    /\ c # d /\ calls[d].pc = "auth" /\ calls[d].now > calls[c].now

\* C7: with any of the three Qoo10 secrets unset, every call throws the
\* credentials error, no authentication request is ever sent and the cache
\* stays empty.
C7_CredentialsMissing ==
  (~QOO10_API_KEY \/ ~QOO10_USER_ID \/ ~QOO10_USER_PW)
    => /\ qoo10AuthCache.key = "" /\ qoo10AuthCache.expiresAt = 0
       /\ authCount = 0
       /\ \A c \in AllCallers :
            /\ calls[c].pc \in {"idle", "threw"}
            /\ calls[c].pc = "threw" => calls[c].err = "credentials"
            /\ calls[c].exchanges = 0

C7_Witness ==
  /\ QOO10_API_KEY /\ QOO10_USER_ID /\ ~QOO10_USER_PW
  /\ calls["c1"].pc = "threw" /\ calls["c1"].err = "credentials"
  /\ now > StartMs

(***************************************************************************)
(* Claims about getExistingQoo10Asins, checked under SpecProbe.            *)
(***************************************************************************)
LiveProbe ==
  QOO10_API_KEY /\ QOO10_USER_ID /\ QOO10_USER_PW /\ target # <<>>

\* one character, whatever its case
FoldCase(ch) ==
  CASE ch \in {"a", "A"} -> "A" [] ch \in {"b", "B"} -> "B"
    [] ch \in {"m", "M"} -> "M" [] ch \in {"z", "Z"} -> "Z"
    [] ch \in {"x", "X"} -> "X" [] ch \in {"o", "O"} -> "O"
    [] OTHER -> ch

EqualsIgnoreCase(s, t) ==
  Len(s) = Len(t) /\ \A k \in 1..Len(s) : FoldCase(s[k]) = FoldCase(t[k])

\* the identifiers of the target that a listing read so far names
Listed ==
  {t \in Range(target) :
     \E sc \in scanned :
       EqualsIgnoreCase(sc, <<"A", "M", "Z", "-">> \o t) \/ EqualsIgnoreCase(sc, t)}

\* C8: a live getExistingQoo10Asins returns, without repetition, exactly the
\* target identifiers t for which a listing of a page it read has the seller
\* code "AMZ-" + t or t, in any case; other seller codes add nothing.
C8_ExistingAreListed ==
  (ppc = "done" /\ LiveProbe)
    => /\ Range(existing) = Listed
       /\ Range(existing) \subseteq Range(target)
       /\ Cardinality(Range(existing)) = Len(existing)

C8_Witness ==
  /\ ppc = "done" /\ LiveProbe
  /\ target = <<Asin(1), Asin(2)>>
  /\ scanned = {<<"A", "M", "Z", "-">> \o Asin(1), <<"O", "T", "H", "E", "R", "-", "X">>}
  /\ existing = <<Asin(1)>>

LastKind == pageLog[Len(pageLog)].kind

C9_Pages ==
  /\ Len(pageLog) <= 10
  /\ \A k \in 1..Len(pageLog) : pageLog[k].page = k
  /\ \A k \in 1..(Len(pageLog) - 1) : pageLog[k].kind = "items"
  /\ (Len(pageLog) = 10 /\ LastKind = "items" /\ ppc # "loop")
       => ppc = "done" /\ existing = found

C9_Step ==
  Len(pageLog') > Len(pageLog)
    => /\ pageLog' = Append(pageLog, pageLog'[Len(pageLog')])
       /\ Cardinality(Range(found)) < Cardinality(Range(target))
       /\ ppc = "loop"

\* C9: the pages are requested in the order 1, 2, 3, ...; at most 10 are
\* requested; no page is requested after one that gave no listing, nor once as
\* many identifiers are found as are asked for; after the 10th page the call
\* returns what it found.
C9_PageCap == []C9_Pages /\ [][C9_Step]_vars

C9_Witness ==
  /\ ppc = "done"
  /\ Len(pageLog) = 10
  /\ LastKind = "items"
  /\ existing # <<>>
  /\ Len(existing) < Len(target)

C10_Step ==
  (Len(pageLog') > Len(pageLog) /\ pageLog'[Len(pageLog')].kind = "http")
    => /\ ppc' = "done"
       /\ existing' = found
       /\ Range(existing') = Listed
       /\ scanned' = scanned

\* C10: when the request for a page gets a status that is not OK, the call
\* returns the identifiers found on the pages before it, does not throw, and
\* requests no further page.
C10_HttpFailureStops ==
  [][C10_Step]_vars /\ [][ppc = "done" => Len(pageLog') <= Len(pageLog)]_vars

C10_Witness ==
  /\ ppc = "done"
  /\ Len(pageLog) = 3
  /\ LastKind = "http"
  /\ existing = <<Asin(2)>>
  /\ Len(target) = 2

(***************************************************************************)
(* Claims about the propagation of upstream failures.                      *)
(***************************************************************************)
\* C11: whatever an upstream answers (a failed status, a thrown error, a
\* rejected CreateCertificationKey), getAmazonInfos and getExistingQoo10Asins
\* end by returning a value: neither ends in an error thrown to its caller.
C11_NeverRaises ==
  /\ fpc \in {"idle", "loop", "done"}
  /\ ppc \in {"idle", "auth", "loop", "done"}

(***************************************************************************)
(* Claims about POST /qoo10/create-listings and qoo10CreateItem, checked   *)
(* under SpecPublish.                                                      *)
(***************************************************************************)
LivePublish == QOO10_API_KEY /\ QOO10_USER_ID /\ QOO10_USER_PW

\* the identifier of the k-th payload as the route reads it
PayloadAsin(k) == toUpperCase(itemsPayload[k].asin)

WellFormed(k) == IsAsin(PayloadAsin(k))

\* the requests to ItemsBasic.SetNewGoods sent for the k-th payload
RequestsFor(k) == {j \in 1..Len(createLog) : createLog[j].item = k}

\* the k-th result says what the exchange made for the k-th payload gave
OwnOutcome(k) ==
  LET r == clResults[k]
  IN IF ~WellFormed(k)
     THEN r.ok = FALSE /\ r.code = "INVALID_ASIN" /\ RequestsFor(k) = {}
     ELSE IF ~LivePublish THEN r.ok /\ r.code = ""
     ELSE /\ r.code \in {"", "CREATE_FAILED"}
          /\ r.ok <=> r.code = ""
          /\ r.ok =>
               \E j \in RequestsFor(k) : createLog[j].outcome = "ok"
          /\ ~r.ok =>
               \/ RequestsFor(k) = {} /\ r.message \in {"transport", "http", "auth"}
               \/ \E j \in RequestsFor(k) :
                    /\ createLog[j].outcome = r.message
                    /\ r.message \in {"transport", "http", "code"}

C12_Results ==
  /\ cpc \in {"item", "await"} => Len(clResults) = clPos - 1
  /\ cpc = "done" => Len(clResults) = Len(itemsPayload)
  /\ \A k \in 1..Len(clResults) :
       /\ clResults[k].asin = PayloadAsin(k)
       /\ OwnOutcome(k)

\* a result is only ever appended, for the payload the loop is at, and the
\* loop then moves to the next payload whatever the result is
C12_Step ==
  clResults' # clResults =>
    \/ cpc = "idle"
    \/ /\ Len(clResults') = Len(clResults) + 1
       /\ SubSeq(clResults', 1, Len(clResults)) = clResults
       /\ clResults'[Len(clResults')].asin = PayloadAsin(clPos)
       /\ clPos' = clPos + 1
       /\ cpc' = "item"

\* C12: for a body of N listing requests the route answers N results, the k-th
\* for the k-th request: a malformed identifier gives INVALID_ASIN for that
\* request alone, and the result of every other request is what its own
\* exchange with Qoo10 gave, whatever the requests before it came to.
C12_OneResultPerRequest == []C12_Results /\ [][C12_Step]_vars

C12_Witness ==
  /\ cpc = "done"
  /\ LivePublish
  /\ Len(itemsPayload) = 3
  /\ clResults[1].code = "CREATE_FAILED"
  /\ clResults[2].code = "INVALID_ASIN"
  /\ clResults[3].ok

\* the positions of `list` that hold the identifier
EntriesOf(list, asin) == {k \in 1..Len(list) : toUpperCase(list[k].asin) = asin}

\* `after` is `before` with one entry of the identifier given the code, or with
\* one such entry added at the end; every other entry is as it was
UpsertedWith(before, after, asin, code) ==
  \/ /\ Len(after) = Len(before)
     /\ \E k \in EntriesOf(before, asin) :
          /\ after[k] = [before[k] EXCEPT !.qoo10Id = code, !.updatedAt = now]
          /\ \A j \in 1..Len(before) : j # k => after[j] = before[j]
  \/ /\ Len(after) = Len(before) + 1
     /\ SubSeq(after, 1, Len(before)) = before
     /\ after[Len(after)].asin = asin
     /\ after[Len(after)].qoo10Id = code

\* a pass of the loop in live mode: the route's catalog moves only with a
\* successful qoo10CreateItem, and then by an upsert with the code it returned
C13_Step ==
  (LivePublish /\ cpc # "idle") =>
    /\ clItems' # clItems =>
         /\ createCall.pc = "returned"
         /\ Len(clResults') = Len(clResults) + 1
    /\ Len(clResults') = Len(clResults) + 1 =>
         LET r == clResults'[Len(clResults')]
         IN IF r.ok
            THEN /\ createCall.pc = "returned"
                 /\ createLog[Len(createLog)].outcome = "ok"
                 /\ createLog[Len(createLog)].item = clPos
                 /\ r.qoo10ItemCode = createCall.qoo10ItemCode
                 /\ UpsertedWith(clItems, clItems', r.asin, r.qoo10ItemCode)
            ELSE /\ clItems' = clItems
                 /\ r.code \in {"INVALID_ASIN", "CREATE_FAILED"}

\* the positions of the results that report a listing of the identifier
Successes(asin) ==
  {k \in 1..Len(clResults) : clResults[k].ok /\ clResults[k].asin = asin}

\* what is saved: an entry differs from the one loaded only if a request for
\* its identifier succeeded, and an entry is added only for such a request
C13_Saved ==
  (LivePublish /\ cpc = "item" /\ clPos > Len(itemsPayload)) =>
    /\ Len(clItems) >= Len(items)
    /\ \A k \in 1..Len(clItems) :
         (k > Len(items) \/ clItems[k] # items[k]) =>
           \E j \in Successes(toUpperCase(clItems[k].asin)) :
             clItems[k].qoo10Id = clResults[j].qoo10ItemCode
    /\ \A j \in 1..Len(clResults) :
         clResults[j].ok =>
           \E k \in EntriesOf(clItems, clResults[j].asin) :
             clItems[k].qoo10Id = clResults[j].qoo10ItemCode

\* C13: in live mode the catalog entry of a request's identifier is created or
\* changed exactly when qoo10CreateItem succeeded for that request, and its
\* qoo10Id is then the code returned; a failed or malformed request leaves the
\* catalog as it was and gets a failure result; what is saved is that catalog.
C13_UpsertOnlyOnSuccess ==
  /\ [][C13_Step]_vars
  /\ []C13_Saved
  /\ [][items' # items => (cpc' = "done" /\ items' = clItems)]_vars

C13_Witness ==
  /\ cpc = "done"
  /\ LivePublish
  /\ Len(clResults) = 3
  /\ clResults[1].ok /\ clResults[1].qoo10ItemCode = <<"i">>
  /\ ~clResults[2].ok
  /\ clResults[3].code = "CREATE_FAILED"
  /\ Len(items) = 2
  /\ items[1].qoo10Id = <<"i">>
  /\ items[1].updatedAt = now
  /\ EntriesOf(items, Asin(3)) = {}

\* a pass of the loop with a credential unset, for a well-formed identifier:
\* an upsert with LOCAL-<identifier> and a success result that carries it
C14_Step ==
  (~(QOO10_API_KEY /\ QOO10_USER_ID /\ QOO10_USER_PW)
     /\ Len(clResults') = Len(clResults) + 1 /\ WellFormed(clPos)) =>
    LET r == clResults'[Len(clResults')]
        local == <<"L", "O", "C", "A", "L", "-">> \o PayloadAsin(clPos)
    IN /\ r.ok
       /\ r.asin = PayloadAsin(clPos)
       /\ r.qoo10ItemCode = local
       /\ UpsertedWith(clItems, clItems', r.asin, local)

\* with a credential unset nothing is sent, and what is saved holds every
\* well-formed identifier of the body with its local code
C14_Local ==
  ~(QOO10_API_KEY /\ QOO10_USER_ID /\ QOO10_USER_PW) =>
    /\ authCount = 0
    /\ createLog = <<>>
    /\ createCall.pc = "idle"
    /\ \A c \in AllCallers : calls[c].pc = "idle"
    /\ cpc # "await"
    /\ cpc = "done" =>
         \A k \in 1..Len(itemsPayload) :
           WellFormed(k) =>
             /\ clResults[k].ok
             /\ \E j \in EntriesOf(items, PayloadAsin(k)) :
                  items[j].qoo10Id = <<"L", "O", "C", "A", "L", "-">> \o PayloadAsin(k)

\* C14: with any of the three Qoo10 credentials unset the route sends no
\* request at all, and for every well-formed request it upserts the catalog
\* entry with the code LOCAL-<identifier> and answers a success result that
\* carries that code.
C14_DegradedPublish == []C14_Local /\ [][C14_Step]_vars

C14_Witness ==
  /\ cpc = "done"
  /\ QOO10_API_KEY /\ ~QOO10_USER_ID /\ QOO10_USER_PW
  /\ Len(clResults) = 3
  /\ clResults[1].ok /\ ~clResults[2].ok /\ clResults[3].ok
  /\ clResults[3].qoo10ItemCode = <<"L", "O", "C", "A", "L", "-">> \o Asin(3)
  /\ Len(items) = 3
  /\ items[1].qoo10Id = <<"L", "O", "C", "A", "L", "-">> \o Asin(1)
  /\ items[3].asin = Asin(3)
  /\ authCount = 0

\* a step of qoo10CreateItem that ends the call: it returns only from a
\* response with an OK status and ResultCode 0, and throws, with no code, for
\* any other response and when getQoo10SellerAuthKey threw
C15_Step ==
  LET last == createLog'[Len(createLog')]
  IN /\ (createCall.pc = "create" /\ createCall'.pc # "create") =>
          /\ Len(createLog') = Len(createLog)
          /\ last.resp.kind # "none"
          /\ IF last.resp.kind = "http" /\ last.resp.ok /\ last.resp.ResultCode = 0
             THEN createCall'.pc = "returned"
             ELSE /\ createCall'.pc = "threw"
                  /\ createCall'.err # ""
                  /\ createCall'.qoo10ItemCode = NoCode
     /\ (createCall.pc = "auth" /\ createCall'.pc # "auth") =>
          IF calls["publish"].pc = "threw"
          THEN /\ createCall'.pc = "threw"
               /\ createCall'.err = calls["publish"].err
               /\ createCall'.qoo10ItemCode = NoCode
               /\ createLog' = createLog
          ELSE createCall'.pc = "create"
     /\ (createCall'.pc = "returned" /\ createCall.pc # "returned") =>
          createCall.pc = "create"

\* C15: qoo10CreateItem returns a listing code only for a response with an OK
\* status and ResultCode 0; for any other response, and when the seller key
\* could not be had, it throws and gives no code.
C15_CodeOnlyOnSuccess ==
  /\ [][C15_Step]_vars
  /\ [](createCall.pc # "returned" => createCall.qoo10ItemCode = NoCode)

C15_Witness ==
  /\ createCall.pc = "threw"
  /\ createCall.err = "code"
  /\ createLog[Len(createLog)].resp.ok
  /\ createLog[Len(createLog)].resp.ResultObject.GdNo = <<"G">>
  /\ Len(clResults) = 1
  /\ clResults[1].ok

(***************************************************************************)
(* Claims about every operation, checked under SpecServer.                 *)
(***************************************************************************)
\* no two entries of a log are for the same chunk, page or listing request
C16_Logs ==
  /\ \A j, k \in 1..Len(keepaLog) : j # k => keepaLog[j].chunk # keepaLog[k].chunk
  /\ Len(keepaLog) * chunkSize < Len(uniqueAsins) + chunkSize
  /\ \A j, k \in 1..Len(pageLog) : j # k => pageLog[j].page # pageLog[k].page
  /\ \A j, k \in 1..Len(createLog) : j # k => createLog[j].item # createLog[k].item
  /\ Len(createLog) <= Len(itemsPayload)
  /\ \A c \in AllCallers : calls[c].exchanges <= 1

\* a request to CreateCertificationKey is sent only by a call that starts,
\* one per call: handling its response, whatever it is, sends none
C16_Step ==
  /\ authCount' # authCount =>
       /\ authCount' = authCount + 1
       /\ \E c \in AllCallers : calls[c].pc = "idle" /\ calls'[c].pc = "auth"
  /\ \A c \in AllCallers :
       (calls[c].pc = "auth" /\ calls'[c].pc # "auth") =>
         /\ authCount' = authCount
         /\ calls'[c].pc \in {"returned", "threw"}

\* C16: no operation asks again for what failed: getAmazonInfos requests each
\* chunk at most once, getExistingQoo10Asins each page number at most once, a
\* call of getQoo10SellerAuthKey sends at most one CreateCertificationKey
\* request, and the create-listings route sends at most one SetNewGoods
\* request per listing request of the body.
C16_NoRetry == []C16_Logs /\ [][C16_Step]_vars

C16_Witness ==
  /\ fpc = "done"
  /\ Len(keepaLog) = 3
  /\ keepaLog[1].resp.kind = "throw"
  /\ keepaLog[2].resp.kind = "http"
  /\ keepaLog[3].resp.kind = "ok"

(***************************************************************************)
(* Claims about POST /items/refresh, checked under SpecRefresh.            *)
(***************************************************************************)
\* the step that saves
Saves == rpc = "fetch" /\ rpc' = "done"

\* the fact returned for the k-th entry, if there is one
Matched(k) == \E j \in 1..Len(results) : results[j].asin = toUpperCase(items[k].asin)

\* what is saved has the entries loaded, one for one: the identifier of each
\* (in upper case) stays, an entry with no fact stays as a whole, and the count
\* answered is the number of entries with a fact
C17_Step ==
  /\ Saves =>
       /\ Len(items') = Len(items)
       /\ \A k \in 1..Len(items) :
            /\ toUpperCase(items'[k].asin) = toUpperCase(items[k].asin)
            /\ ~Matched(k) => items'[k] = items[k]
            /\ Matched(k) => items'[k].asin = toUpperCase(items[k].asin)
       /\ updatedCount' = Cardinality({k \in 1..Len(items) : Matched(k)})
  /\ ~Saves => items' = items
  /\ (rpc = "idle" /\ rpc' = "done") => updatedCount' = 0

\* C17: the refresh route removes, adds and reorders nothing: what it saves has
\* the same length and, position by position, the same identifiers as what it
\* loaded (an identifier stored in lower case is saved in upper case when a
\* fact came for it); an entry for which no fact came is saved as it was; the
\* count answered is the number of entries for which a fact came.
C17_RefreshKeepsEntries == [][C17_Step]_vars

C17_Witness ==
  /\ rpc = "done"
  /\ KEEPA_API_KEY
  /\ Len(items) = 3
  /\ updatedCount = 2
  /\ items[1].asin = Asin(1) /\ items[1].updatedAt = now
  /\ items[2] = Item(<<"x">>, <<"N">>, 0, <<>>)
  /\ items[3].updatedAt = now

\* the fact the map looks up for the k-th entry
FactOf(k) ==
  results[CHOOSE j \in 1..Len(results) :
            /\ results[j].asin = toUpperCase(items[k].asin)
            /\ \A m \in (j + 1)..Len(results) :
                 results[m].asin # toUpperCase(items[k].asin)]

C18_OverwriteStep ==
  Saves =>
    \A k \in 1..Len(items) :
      Matched(k) =>
        /\ items'[k].amazonPrice = FactOf(k).price
        /\ items'[k].name = FactOf(k).title
        /\ items'[k].mainImage = FactOf(k).image
        /\ items'[k].updatedAt = now

C18_FillStep ==
  Saves =>
    \A k \in 1..Len(items) :
      Matched(k) =>
        LET it == items[k]
            f == FactOf(k)
            new == items'[k]
        IN /\ new.amazonPrice = (IF f.price > 0 THEN f.price ELSE it.amazonPrice)
           /\ new.name = (IF it.name # <<>> THEN it.name ELSE f.title)
           /\ new.mainImage = (IF f.image # Undefined THEN f.image ELSE it.mainImage)
           /\ new.inStock = (f.price > 0)
           /\ new.updatedAt = now
           /\ new.qoo10Id = it.qoo10Id

Present(x) == x # {} /\ (CHOOSE v \in x : TRUE) > 0

ValueOf(x) == CHOOSE v \in x : TRUE

\* y is v / 100 rounded to the nearest integer, halves up
IsRounded(y, v) == 100 * y - 50 <= v /\ v < 100 * y + 50

\* the step of a response with a product list: the products with an asin, and
\* the facts pushed for them
ListedProducts ==
  SelectSeq(keepaLog'[Len(keepaLog')].resp.products, LAMBDA p : p.asin # <<>>)

PushesFacts ==
  /\ Len(keepaLog') = Len(keepaLog) + 1
  /\ keepaLog'[Len(keepaLog')].resp.kind = "ok"
  /\ keepaLog'[Len(keepaLog')].resp.isArray

\* the first of buy-box, current and new price that is present and positive
FirstPresent(p) ==
  IF Present(p.stats.buyBoxPrice) THEN p.stats.buyBoxPrice
  ELSE IF Present(p.stats.current) THEN p.stats.current
  ELSE IF Present(p.newPrice) THEN p.newPrice
  ELSE {}

C19_FirstPresentStep ==
  PushesFacts =>
    /\ Len(results') = Len(results) + Len(ListedProducts)
    /\ \A k \in 1..Len(ListedProducts) :
         LET src == FirstPresent(ListedProducts[k])
             price == results'[Len(results) + k].price
         IN IF src = {} THEN price = 0 ELSE IsRounded(price, ValueOf(src))

\* C19: the price of a fact is the converted value (minor units over 100,
\* rounded) of the first of buy-box, current and new price that is present
\* and positive, and 0 when none is: a price of lower priority is used only
\* when every price of higher priority is absent or not positive.
C19_FirstPresentPrice == [][C19_FirstPresentStep]_vars

\* the converted value of one price: 0 when absent or not positive
Converted(x) ==
  IF Present(x)
  THEN CHOOSE y \in 0..(ValueOf(x) \div 100 + 1) : IsRounded(y, ValueOf(x))
  ELSE 0

C19_FirstNonZeroStep ==
  PushesFacts =>
    /\ Len(results') = Len(results) + Len(ListedProducts)
    /\ \A k \in 1..Len(ListedProducts) :
         LET p == ListedProducts[k]
             b == Converted(p.stats.buyBoxPrice)
             c == Converted(p.stats.current)
             n == Converted(p.newPrice)
             price == results'[Len(results) + k].price
         IN price = (IF b # 0 THEN b ELSE IF c # 0 THEN c ELSE n)

\* C19 as the code has it: each of buy-box, current and new price is converted
\* first (minor units over 100, rounded; 0 when absent or not positive), and
\* the price of the fact is the first converted value that is not 0, or 0: a
\* price of higher priority that is positive but below 50 minor units converts
\* to 0 and is passed over.
C19_FirstNonZeroPrice == [][C19_FirstNonZeroStep]_vars

C19_Witness ==
  /\ fpc = "done"
  /\ Len(keepaLog) = 1
  /\ keepaLog[1].resp.isArray
  /\ Len(keepaLog[1].resp.products) = 1
  /\ keepaLog[1].resp.products[1].stats.buyBoxPrice = {49}
  /\ keepaLog[1].resp.products[1].stats.current = {3000}
  /\ Len(results) = 1
  /\ results[1].price = 30

(***************************************************************************)
(* Claims about the server without Qoo10 credentials, checked under        *)
(* SpecDegraded.                                                           *)
(***************************************************************************)
\* the identifiers whose entry of items.json carries a listing code
WithCode ==
  {toUpperCase(items[k].asin) : k \in {j \in 1..Len(items) : items[j].qoo10Id # <<>>}}

\* a lookup: it answers in the same step, with the identifiers asked for that
\* carry a code and no other; after a saved create-listings request it finds
\* each well-formed identifier of that request
C20_Step ==
  (ppc = "idle" /\ ppc' = "done") =>
    /\ Range(existing') = Range(target') \cap WithCode
    /\ Len(existing') = Cardinality(Range(existing'))
    /\ UNCHANGED <<authCount, pageLog, createLog, qoo10AuthCache>>
    /\ cpc = "done" =>
         \A k \in 1..Len(itemsPayload) :
           (WellFormed(k) /\ target' = <<PayloadAsin(k)>>) =>
             existing' = <<PayloadAsin(k)>>

C20_NoRequest ==
  /\ authCount = 0
  /\ pageLog = <<>>
  /\ createLog = <<>>
  /\ ppc \in {"idle", "done"}

\* C20: with a Qoo10 credential unset getExistingQoo10Asins sends no request
\* and returns exactly the identifiers asked for whose catalog entry carries a
\* listing code; so once a create-listings request with a well-formed
\* identifier X has been saved, a lookup of X alone returns X.
C20_DegradedLookup == []C20_NoRequest /\ [][C20_Step]_vars

C20_Witness ==
  /\ cpc = "done"
  /\ ppc = "done"
  /\ Len(itemsPayload) = 3
  /\ PayloadAsin(3) = Asin(3)
  /\ target = <<Asin(3)>>
  /\ existing = <<Asin(3)>>
  /\ Len(items) = 2
  /\ items[2].qoo10Id = <<"L", "O", "C", "A", "L", "-">> \o Asin(3)

(***************************************************************************)
(* Claims about interleaved calls of getQoo10SellerAuthKey, checked under  *)
(* SpecSession.                                                            *)
(***************************************************************************)
\* a call that starts while another awaits its response, with no valid key
\* cached, sends a request of its own
C21_Step ==
  \A c, d \in Callers :
    (c # d /\ calls[c].pc = "auth" /\ CallStarts(d)
       /\ QOO10_API_KEY /\ QOO10_USER_ID /\ QOO10_USER_PW
       /\ (qoo10AuthCache.key = "" \/ now >= qoo10AuthCache.expiresAt))
      => /\ calls'[d].pc = "auth"
         /\ calls'[d].exchanges = 1
         /\ authCount' = authCount + 1

\* two calls that each sent a request and returned: each returned the key of
\* its own response, and the cache holds the key of one of them with the
\* expiry that call computed
C21_BothReturned ==
  \A c, d \in Callers :
    (c # d /\ calls[c].pc = "returned" /\ calls[d].pc = "returned"
       /\ calls[c].exchanges = 1 /\ calls[d].exchanges = 1)
      => /\ calls[c].ret = calls[c].resp.ResultObject
         /\ calls[d].ret = calls[d].resp.ResultObject
         /\ calls[c].ret # "" /\ calls[d].ret # ""
         /\ authCount >= 2
         /\ \E w \in {c, d} :
              /\ qoo10AuthCache.key = calls[w].ret
              /\ qoo10AuthCache.expiresAt = calls[w].now + 45 * 60 * 1000

\* C21: when two calls both find no valid key before either response has
\* come, each sends its own CreateCertificationKey request (two in all), each
\* returns the key of its own response, and when both have returned the cache
\* holds a key together with its expiry, both written by one of the two.
C21_TwoMissesTwoExchanges == []C21_BothReturned /\ [][C21_Step]_vars

C21_Witness ==
  /\ calls["c1"].pc = "returned" /\ calls["c2"].pc = "returned"
  /\ calls["c1"].saw = EmptyCache /\ calls["c2"].saw = EmptyCache
  /\ calls["c1"].exchanges = 1 /\ calls["c2"].exchanges = 1
  /\ calls["c1"].ret = "SAK1" /\ calls["c2"].ret = "SAK2"
  /\ authCount = 2
  /\ qoo10AuthCache.key = "SAK1"

\* C23: whatever the interleaving of the calls, the cached expiresAt never
\* decreases: no write to the cache replaces an entry by one that expires
\* earlier.
C23_ExpiryNeverDecreases ==
  [][qoo10AuthCache'.expiresAt >= qoo10AuthCache.expiresAt]_vars

(***************************************************************************)
(* Claims about the use of the seller key, checked under SpecTimedProbe.   *)
(***************************************************************************)
\* the time the request for the k-th page (k > 1) was sent: when the page
\* before it had been scanned
PageSentAt(k) == pageLog[k - 1].at

\* C22: no request to Qoo10 (GetAllGoodsInfo for a page, SetNewGoods) carries
\* a seller key at a time at or after the expiresAt the key is cached with;
\* that holds for each of the up to 10 page requests of one lookup, which
\* all carry the key obtained before the first.
C22_KeyNotUsedPastExpiry ==
  /\ \A k \in 2..Len(pageLog) :
       qoo10AuthCache.key = pageLog[k].key =>
         PageSentAt(k) < qoo10AuthCache.expiresAt
  /\ \A j \in 1..Len(createLog) :
       qoo10AuthCache.key = createLog[j].key =>
         createLog[j].sentAt < qoo10AuthCache.expiresAt

\* a catalog with at most one entry per identifier, as asinIndex compares them
OneEntryPerAsin(list) ==
  \A j, k \in 1..Len(list) :
    toUpperCase(list[j].asin) = toUpperCase(list[k].asin) => j = k

\* C24: a catalog that holds at most one entry per identifier before
\* create-listings holds at most one per identifier after it, with and
\* without credentials, also when the batch names an absent identifier more
\* than once.
C24_OneEntryPerIdentifier ==
  [][OneEntryPerAsin(items) => OneEntryPerAsin(items')]_vars

\* the identifier the j-th request of SetNewGoods was made for
ListedAsin(j) == toUpperCase(itemsPayload[createLog[j].item].asin)

\* C25: the seller code sent to SetNewGoods for identifier X is "AMZ-" followed
\* by X; two requests for different identifiers carry different seller codes;
\* and a lookup that has scanned a listing with the seller code sent for X,
\* X being one of its targets, has found X, returns X, and has found nothing
\* that no scanned listing was created for.
C25_SellerCodeRoundTrip ==
  /\ \A j \in 1..Len(createLog) :
       createLog[j].SellerCode = <<"A", "M", "Z", "-">> \o ListedAsin(j)
  /\ \A j, k \in 1..Len(createLog) :
       ListedAsin(j) # ListedAsin(k) =>
         createLog[j].SellerCode # createLog[k].SellerCode
  /\ ppc \in {"loop", "done"} =>
       /\ \A j \in 1..Len(createLog) :
            (createLog[j].SellerCode \in scanned /\ ListedAsin(j) \in Range(target))
              => /\ ListedAsin(j) \in Range(found)
                 /\ ppc = "done" => ListedAsin(j) \in Range(existing)
       /\ \A k \in 1..Len(found) :
            \E j \in 1..Len(createLog) :
              /\ ListedAsin(j) = found[k]
              /\ createLog[j].SellerCode \in scanned

\* the listing created for b000000003 is the only one a lookup of two
\* identifiers reports
C25_Witness ==
  /\ ppc = "done"
  /\ Len(target) >= 2
  /\ existing = <<Asin(3)>>
  /\ \E j \in 1..Len(createLog) :
       /\ itemsPayload[createLog[j].item].asin = NewAsin
       /\ createLog[j].SellerCode \in scanned

\* what qoo10CreateItem returns agrees with the fields of the response, and no
\* record of success carries an empty listing code
C26_Returned ==
  /\ createCall.pc = "returned" =>
       LET obj == createLog[Len(createLog)].resp.ResultObject
       IN createCall.qoo10ItemCode =
            IF obj.GdNo # <<>> THEN obj.GdNo
            ELSE IF obj.ItemCode # <<>> THEN obj.ItemCode
            ELSE IF obj.item_code # <<>> THEN obj.item_code
            ELSE IF obj.goodsNo # <<>> THEN obj.goodsNo
            ELSE <<>>
  /\ \A k \in 1..Len(clResults) :
       clResults[k].ok => clResults[k].qoo10ItemCode # <<>>

\* a pass of the loop writes no empty listing code into an entry
C26_Stored ==
  cpc \in {"item", "await"} =>
    \A j \in 1..Len(clItems') :
      (j > Len(clItems) \/ clItems'[j] # clItems[j]) => clItems'[j].qoo10Id # <<>>

\* C26: after a successful answer of SetNewGoods qoo10CreateItem returns the
\* first non-empty of GdNo, ItemCode, item_code, goodsNo, in that order, and
\* the empty string when all are empty; create-listings never answers with a
\* record of success whose listing code is empty and never stores an empty
\* listing code in an entry of the catalog.
C26_EmptyCodeIsNotSuccess == []C26_Returned /\ [][C26_Stored]_vars
====
